---------------------------- MODULE Spec2Model ----------------------------
(***************************************************************************)
(* temporal-parser: lexer -> offset fuser -> recursive-descent parser ->   *)
(* AST -> stringifier, plus the standalone offset parser.                   *)
(*                                                                         *)
(* Text is a sequence of one-character strings.  Offsets into the source    *)
(* are 0-based as in the code, so src[i] of the code is src[i + 1] here.    *)
(* An optional field is <<>> when absent and <<v>> when present.            *)
(***************************************************************************)
EXTENDS Integers, Sequences, FiniteSets, TLC

VARIABLES
    pc,       \* position of the run
    src,      \* source text handed to parseTemporal / parseOffset
    raw,      \* Token[] produced by lexTemporal (or handed to the fuser)
    toks,     \* AnyToken[] produced by combineTimezoneOffsets
    toks2,    \* result of a second pass of combineTimezoneOffsets
    ast,      \* the value returned by the parser / parseOffset
    err,      \* the error thrown, [kind |-> "none"] when nothing was thrown
    out,      \* text produced by stringifyTemporal
    loop      \* cursor and locals of the loop a step-by-step run is in

vars == <<pc, src, raw, toks, toks2, ast, err, out, loop>>

----------------------------------------------------------------------------
(* Bounds of the model *)

MaxToks == 4        \* length of the arbitrary token sequences given to the fuser
MaxDurItems == 3    \* designator items in a generated duration body
MaxGroups == 2      \* bracket groups after a generated date-time or duration
MaxOffLen == 5      \* length of the arbitrary text after the first character of an offset string

----------------------------------------------------------------------------
(* Options and text helpers *)

None == <<>>
Some(x) == <<x>>
IsSome(o) == Len(o) = 1
Val(o) == o[1]

Digits == <<"0", "1", "2", "3", "4", "5", "6", "7", "8", "9">>
DigitSet == {Digits[k] : k \in 1..10}

LowerSet == {"a", "b", "c", "d", "e", "f", "g", "h", "i", "j", "k", "l", "m",
             "n", "o", "p", "q", "r", "s", "t", "u", "v", "w", "x", "y", "z"}
UpperSet == {"A", "B", "C", "D", "E", "F", "G", "H", "I", "J", "K", "L", "M",
             "N", "O", "P", "Q", "R", "S", "T", "U", "V", "W", "X", "Y", "Z"}

isDigit(c) == c \in DigitSet
isAlpha(c) == c \in LowerSet \cup UpperSet
isBracketWordChar(c) == isAlpha(c) \/ isDigit(c) \/ c \in {"-", "/", "+", "."}
\* /\s/ restricted to the white space the inputs of the model contain
isSpace(c) == c = " "

DigitVal(c) == CHOOSE k \in 0..9 : Digits[k + 1] = c

RECURSIVE Flatten(_)
Flatten(ss) == IF ss = <<>> THEN <<>> ELSE Head(ss) \o Flatten(Tail(ss))

\* String.prototype.slice(from) and slice(from, to) with 0-based offsets
Slice(s, from, to) == SubSeq(s, from + 1, to)
SliceFrom(s, from) == SubSeq(s, from + 1, Len(s))

\* String.prototype.includes / indexOf(c) !== -1 for a one-character needle
Includes(s, c) == \E k \in 1..Len(s) : s[k] = c

StartsWith(s, p) == Len(s) >= Len(p) /\ SubSeq(s, 1, Len(p)) = p

\* Number.prototype.toString() of an integer
RECURSIVE NatToStr(_)
NatToStr(n) == IF n < 10 THEN <<Digits[n + 1]>>
               ELSE NatToStr(n \div 10) \o <<Digits[(n % 10) + 1]>>

\* Numbers of the program are integers here.  The digit runs of the model have
\* at most 9 digits and denote themselves, with one exception: 1 followed by
\* 21 zeros, whose Number() is 1e21, the least integer that
\* Number.prototype.toString writes in exponent notation.  E21 stands for that
\* Number; it is above every other number of the model.
E21 == 1000000000

IntToStr(n) ==
    IF n = E21 THEN <<"1", "e", "+", "2", "1">>
    ELSE IF n < 0 THEN <<"-">> \o NatToStr(-n) ELSE NatToStr(n)

\* a + b of two Numbers: doubles at 1e21 are 2^17 apart, so adding one of the
\* small numbers of the model to 1e21 gives 1e21
NumberPlus(a, b) == IF a = E21 \/ b = E21 THEN E21 ELSE a + b

\* String.prototype.padStart(n, '0')
RECURSIVE padStart(_, _)
padStart(s, n) == IF Len(s) >= n THEN s ELSE padStart(<<"0">> \o s, n)

\* Number(s) of a run of decimal digits
RECURSIVE DigitsToNat(_)
DigitsToNat(s) == IF s = <<>> THEN 0
                  ELSE 10 * DigitsToNat(SubSeq(s, 1, Len(s) - 1)) + DigitVal(s[Len(s)])

\* a digit run without its leading zeros
RECURSIVE StripZeros(_)
StripZeros(s) == IF Len(s) > 1 /\ s[1] = "0" THEN StripZeros(Tail(s)) ELSE s

\* Number(s) of a run of decimal digits, also of the one run of the model that
\* is not an exact small integer
toNumber(s) ==
    IF StripZeros(s) = <<"1", "0", "0", "0", "0", "0", "0", "0", "0", "0", "0", "0", "0", "0", "0", "0", "0", "0", "0", "0", "0", "0">> THEN E21 ELSE DigitsToNat(s)

AllDigits(s) == \A k \in 1..Len(s) : isDigit(s[k])

----------------------------------------------------------------------------
(* Errors *)

\* message is the fixed part of the message text; position is a source offset for
\* a LexError and a token index (or the caller's position) for a ParseError
NoError == [kind |-> "none"]
\* a LexError that reports the start of the text
LexError_atStart(msg, pos) == [kind |-> "LexError", message |-> msg, position |-> 0]
LexError(msg, pos) == [kind |-> "LexError", message |-> msg, position |-> pos]
\* a ParseError reported under the kind of the lexer's error
ParseError_asLexError(msg, pos) == [kind |-> "LexError", message |-> msg, position |-> pos]
ParseError(msg, pos) == [kind |-> "ParseError", message |-> msg, position |-> pos]

\* what a function returns: a value (with the parser's cursor), or a thrown error
Fail(e) == [ok |-> FALSE, err |-> e]
Ok(i, v) == [ok |-> TRUE, i |-> i, val |-> v]

\* const v = ...; F(v)
Bind(v, F(_)) == F(v)

Min(a, b) == IF a < b THEN a ELSE b

\* toInt: Number(s) must be a finite integer.  Number() trims white space,
\* reads "" as 0 and accepts one leading sign before decimal digits; every
\* other text over the alphabets of the model is NaN.
Trim(s) ==
    LET first == IF \E k \in 1..Len(s) : ~isSpace(s[k])
                 THEN CHOOSE k \in 1..Len(s) : ~isSpace(s[k]) /\ \A j \in 1..(k - 1) : isSpace(s[j])
                 ELSE Len(s) + 1
        last == IF first > Len(s) THEN 0
                ELSE CHOOSE k \in 1..Len(s) : ~isSpace(s[k]) /\ \A j \in (k + 1)..Len(s) : isSpace(s[j])
    IN SubSeq(s, first, last)

toInt(s, label, position) ==
    LET t == Trim(s)
        signed == Len(t) >= 1 /\ t[1] \in {"+", "-"}
        body == IF signed THEN Tail(t) ELSE t
    IN IF t = <<>> THEN [ok |-> TRUE, n |-> 0]
       ELSE IF body # <<>> /\ AllDigits(body)
            THEN [ok |-> TRUE,
                  n |-> IF signed /\ t[1] = "-" THEN 0 - DigitsToNat(body) ELSE toNumber(body)]
            ELSE [ok |-> FALSE, err |-> ParseError(<<"Invalid integer for", label>>, position)]

----------------------------------------------------------------------------
(* Lexer *)

\* a token whose end is the offset of its last character
Tok_endInclusive(type, s, start, end) ==
    [type |-> type, value |-> Slice(s, start, end), start |-> start, end |-> end - 1]

Tok(type, s, start, end) ==
    [type |-> type, value |-> Slice(s, start, end), start |-> start, end |-> end]

\* end of the run of digits that starts at offset i
RECURSIVE NumberEnd(_, _)
NumberEnd(s, i) == IF i < Len(s) /\ isDigit(s[i + 1]) THEN NumberEnd(s, i + 1) ELSE i

\* end of the run of letters, T and Z among them
RECURSIVE IdentEnd_anyLetter(_, _)
IdentEnd_anyLetter(s, i) ==
    IF i < Len(s) /\ isAlpha(s[i + 1]) THEN IdentEnd_anyLetter(s, i + 1) ELSE i

\* end of the run of letters other than T and Z
RECURSIVE IdentEnd(_, _)
IdentEnd(s, i) ==
    IF i < Len(s) /\ isAlpha(s[i + 1]) /\ s[i + 1] # "T" /\ s[i + 1] # "Z"
    THEN IdentEnd(s, i + 1) ELSE i

RECURSIVE WordEnd(_, _)
WordEnd(s, i) == IF i < Len(s) /\ isBracketWordChar(s[i + 1]) THEN WordEnd(s, i + 1) ELSE i

lexNumber(s, i) ==
    LET e == NumberEnd(s, i + 1) IN [i |-> e, tok |-> Tok("Number", s, i, e)]

lexIdent(s, i) ==
    LET ch == s[i + 1] IN
    IF ch = "T" THEN [i |-> i + 1, tok |-> Tok("T", s, i, i + 1)]
    ELSE IF ch = "Z" THEN [i |-> i + 1, tok |-> Tok("Z", s, i, i + 1)]
    ELSE LET e == IdentEnd(s, i + 1) IN [i |-> e, tok |-> Tok("Ident", s, i, e)]

BracketPunct(ch) ==
    CASE ch = "=" -> "Equals"
      [] ch = "_" -> "Underscore"
      [] ch = ":" -> "Colon"
      [] ch = "-" -> "Dash"
      [] ch = "+" -> "Plus"
      [] ch = "/" -> "Slash"
      [] ch = "." -> "Dot"
      [] ch = "," -> "Comma"
      [] ch = "!" -> "Exclamation"
      [] OTHER -> "none"

DefaultPunct(ch) ==
    CASE ch = "-" -> "Dash"
      [] ch = ":" -> "Colon"
      [] ch = "." -> "Dot"
      [] ch = "+" -> "Plus"
      [] ch = "/" -> "Slash"
      [] ch = "," -> "Comma"
      [] ch = "=" -> "Equals"
      [] ch = "_" -> "Underscore"
      [] OTHER -> "none"

\* a bracket lexer that emits a run of digits as a Number
RECURSIVE lexBracketContent_numbers(_, _, _)
lexBracketContent_numbers(s, i, tokens) ==
    IF i >= Len(s)
    THEN [ok |-> FALSE, err |-> LexError(<<"Unterminated bracket annotation">>, Len(s))]
    ELSE LET ch == s[i + 1] IN
         IF ch = "]" THEN [ok |-> TRUE, i |-> i, tokens |-> tokens]
         ELSE IF isSpace(ch) THEN lexBracketContent_numbers(s, i + 1, tokens)
         ELSE IF BracketPunct(ch) # "none"
              THEN lexBracketContent_numbers(s, i + 1,
                                             Append(tokens, Tok(BracketPunct(ch), s, i, i + 1)))
         ELSE IF isDigit(ch)
              THEN lexBracketContent_numbers(s, NumberEnd(s, i + 1),
                                             Append(tokens, Tok("Number", s, i, NumberEnd(s, i + 1))))
         ELSE IF isBracketWordChar(ch)
              THEN LET e == WordEnd(s, i + 1)
                       text == Slice(s, i, e)
                       type == IF \A k \in 1..Len(text) : isAlpha(text[k])
                               THEN "Ident" ELSE "BracketText"
                   IN lexBracketContent_numbers(s, e, Append(tokens, Tok(type, s, i, e)))
         ELSE [ok |-> FALSE, err |-> LexError(<<"Unexpected character inside brackets">>, i)]

\* lexBracketContent: from offset i (just after '[') to the offset of ']'
RECURSIVE lexBracketContent(_, _, _)
lexBracketContent(s, i, tokens) ==
    IF i >= Len(s)
    THEN [ok |-> FALSE, err |-> LexError(<<"Unterminated bracket annotation">>, Len(s))]
    ELSE LET ch == s[i + 1] IN
         IF ch = "]" THEN [ok |-> TRUE, i |-> i, tokens |-> tokens]
         ELSE IF isSpace(ch) THEN lexBracketContent(s, i + 1, tokens)
         ELSE IF BracketPunct(ch) # "none"
              THEN lexBracketContent(s, i + 1, Append(tokens, Tok(BracketPunct(ch), s, i, i + 1)))
         ELSE IF isBracketWordChar(ch)
              THEN LET e == WordEnd(s, i + 1)
                       text == Slice(s, i, e)
                       type == IF \A k \in 1..Len(text) : isAlpha(text[k])
                               THEN "Ident" ELSE "BracketText"
                   IN lexBracketContent(s, e, Append(tokens, Tok(type, s, i, e)))
         ELSE [ok |-> FALSE, err |-> LexError(<<"Unexpected character inside brackets">>, i)]

RECURSIVE lexLoop(_, _, _)
lexLoop(s, i, tokens) ==
    IF i >= Len(s)
    THEN [ok |-> TRUE, tokens |-> Append(tokens, Tok("EOF", s, Len(s), Len(s)))]
    ELSE LET ch == s[i + 1] IN
         IF isSpace(ch) THEN lexLoop(s, i + 1, tokens)
         ELSE IF ch = "["
              THEN LET b == lexBracketContent(s, i + 1, Append(tokens, Tok("LBracket", s, i, i + 1)))
                   IN IF ~b.ok THEN b
                      ELSE IF b.i >= Len(s) \/ s[b.i + 1] # "]"
                           THEN [ok |-> FALSE,
                                 err |-> LexError(<<"Unterminated bracket annotation">>, b.i)]
                           ELSE lexLoop(s, b.i + 1,
                                        Append(b.tokens, Tok("RBracket", s, b.i, b.i + 1)))
         ELSE IF isDigit(ch)
              THEN LET r == lexNumber(s, i) IN lexLoop(s, r.i, Append(tokens, r.tok))
         ELSE IF isAlpha(ch)
              THEN LET r == lexIdent(s, i) IN lexLoop(s, r.i, Append(tokens, r.tok))
         ELSE IF DefaultPunct(ch) # "none"
              THEN lexLoop(s, i + 1, Append(tokens, Tok(DefaultPunct(ch), s, i, i + 1)))
         ELSE [ok |-> FALSE, err |-> LexError(<<"Unexpected character">>, i)]

lexTemporal(s) == lexLoop(s, 0, <<>>)

----------------------------------------------------------------------------
(* Offset fuser *)

\* couldBeTzOffset accepting a sign after any number
couldBeTzOffset_anyNumber(o) ==
    IF Len(o) < 1 THEN FALSE
    ELSE LET prev == o[Len(o)] IN
         IF prev.type = "Z" THEN FALSE
         ELSE IF prev.type = "RBracket" THEN FALSE
         ELSE prev.type = "Number"

\* couldBeTzOffset refusing only a first token, a Z or a closing bracket
couldBeTzOffset_afterAnythingElse(o) ==
    IF Len(o) < 1 THEN FALSE
    ELSE LET prev == o[Len(o)] IN
         IF prev.type = "Z" THEN FALSE
         ELSE IF prev.type = "RBracket" THEN FALSE
         ELSE IF prev.type = "Number"
              THEN IF Len(o) < 2 THEN FALSE
                   ELSE o[Len(o) - 1].type \in {"Colon", "Dot"}
              ELSE TRUE

\* couldBeTzOffset accepting a sign after the last number of a date
couldBeTzOffset_afterDate(o) ==
    IF Len(o) < 1 THEN FALSE
    ELSE LET prev == o[Len(o)] IN
         IF prev.type = "Z" THEN FALSE
         ELSE IF prev.type = "RBracket" THEN FALSE
         ELSE IF prev.type = "Number"
              THEN IF Len(o) < 2 THEN FALSE
                   ELSE o[Len(o) - 1].type \in {"Colon", "Dot", "Dash"}
              ELSE FALSE

\* couldBeTzOffset over the tokens emitted so far
couldBeTzOffset(o) ==
    IF Len(o) < 1 THEN FALSE
    ELSE LET prev == o[Len(o)] IN
         IF prev.type = "Z" THEN FALSE
         ELSE IF prev.type = "RBracket" THEN FALSE
         ELSE IF prev.type = "Number"
              THEN IF Len(o) < 2 THEN FALSE
                   ELSE o[Len(o) - 1].type \in {"Colon", "Dot"}
              ELSE FALSE

TypeAt(tokens, k) == IF k >= 0 /\ k < Len(tokens) THEN tokens[k + 1].type ELSE "undefined"

\* fuseStep taking a number of any length after the sign
fuseStep_anyLength(tokens, i, o) ==
    LET t == tokens[i + 1]
        isSign == t.type = "Plus" \/ t.type = "Dash"
    IN IF isSign /\ couldBeTzOffset(o)
          /\ TypeAt(tokens, i + 1) = "Number"
          /\ TypeAt(tokens, i + 2) = "Colon"
          /\ TypeAt(tokens, i + 3) = "Number"
       THEN [i |-> i + 4,
             out |-> Append(o, [type |-> "TZOffset",
                                value |-> t.value \o tokens[i + 2].value \o <<":">>
                                            \o tokens[i + 4].value,
                                tokens |-> SubSeq(tokens, i + 1, i + 4),
                                start |-> t.start, end |-> tokens[i + 4].end])]
       ELSE IF isSign /\ couldBeTzOffset(o)
               /\ TypeAt(tokens, i + 1) = "Number"
       THEN [i |-> i + 2,
             out |-> Append(o, [type |-> "TZOffset",
                                value |-> t.value \o tokens[i + 2].value,
                                tokens |-> SubSeq(tokens, i + 1, i + 2),
                                start |-> t.start, end |-> tokens[i + 2].end])]
       ELSE [i |-> i + 1, out |-> Append(o, t)]

\* an iteration whose colon-shaped offset ends at the end of its hour digits
fuseStep_spanToHours(tokens, i, o) ==
    LET t == tokens[i + 1]
        isSign == t.type = "Plus" \/ t.type = "Dash"
    IN IF isSign /\ couldBeTzOffset(o)
          /\ TypeAt(tokens, i + 1) = "Number"
          /\ TypeAt(tokens, i + 2) = "Colon"
          /\ TypeAt(tokens, i + 3) = "Number"
       THEN [i |-> i + 4,
             out |-> Append(o, [type |-> "TZOffset",
                                value |-> t.value \o tokens[i + 2].value \o <<":">>
                                            \o tokens[i + 4].value,
                                tokens |-> SubSeq(tokens, i + 1, i + 4),
                                start |-> t.start, end |-> tokens[i + 2].end])]
       ELSE IF isSign /\ couldBeTzOffset(o)
               /\ TypeAt(tokens, i + 1) = "Number"
               /\ Len(tokens[i + 2].value) \in {2, 4}
       THEN [i |-> i + 2,
             out |-> Append(o, [type |-> "TZOffset",
                                value |-> t.value \o tokens[i + 2].value,
                                tokens |-> SubSeq(tokens, i + 1, i + 2),
                                start |-> t.start, end |-> tokens[i + 2].end])]
       ELSE [i |-> i + 1, out |-> Append(o, t)]

\* one iteration of the main loop of combineTimezoneOffsets at cursor i
fuseStep(tokens, i, o) ==
    LET t == tokens[i + 1]
        isSign == t.type = "Plus" \/ t.type = "Dash"
    IN IF isSign /\ couldBeTzOffset(o)
          /\ TypeAt(tokens, i + 1) = "Number"
          /\ TypeAt(tokens, i + 2) = "Colon"
          /\ TypeAt(tokens, i + 3) = "Number"
       THEN [i |-> i + 4,
             out |-> Append(o, [type |-> "TZOffset",
                                value |-> t.value \o tokens[i + 2].value \o <<":">>
                                            \o tokens[i + 4].value,
                                tokens |-> SubSeq(tokens, i + 1, i + 4),
                                start |-> t.start, end |-> tokens[i + 4].end])]
       ELSE IF isSign /\ couldBeTzOffset(o)
               /\ TypeAt(tokens, i + 1) = "Number"
               /\ Len(tokens[i + 2].value) \in {2, 4}
       THEN [i |-> i + 2,
             out |-> Append(o, [type |-> "TZOffset",
                                value |-> t.value \o tokens[i + 2].value,
                                tokens |-> SubSeq(tokens, i + 1, i + 2),
                                start |-> t.start, end |-> tokens[i + 2].end])]
       ELSE [i |-> i + 1, out |-> Append(o, t)]

\* the loop copying every token once the first offset is fused
RECURSIVE fuseLoop_once(_, _, _)
fuseLoop_once(tokens, i, o) ==
    IF i < Len(tokens)
    THEN LET r == fuseStep(tokens, i, o)
         IN IF r.i > i + 1 THEN r.out \o SubSeq(tokens, r.i + 1, Len(tokens))
            ELSE fuseLoop_once(tokens, r.i, r.out)
    ELSE o

RECURSIVE fuseLoop(_, _, _)
fuseLoop(tokens, i, o) ==
    IF i < Len(tokens)
    THEN LET r == fuseStep(tokens, i, o) IN fuseLoop(tokens, r.i, r.out)
    ELSE o

combineTimezoneOffsets(tokens) == fuseLoop(tokens, 0, <<>>)

----------------------------------------------------------------------------
(* Offset parser *)

MAX_OFFSET_HOURS == 14
MAX_MINUTES == 59

\* String.prototype.split(':')
RECURSIVE SplitColon(_)
SplitColon(s) ==
    IF ~Includes(s, ":") THEN <<s>>
    ELSE LET k == CHOOSE j \in 1..Len(s) : s[j] = ":" /\ \A m \in 1..(j - 1) : s[m] # ":"
         IN <<SubSeq(s, 1, k - 1)>> \o SplitColon(SubSeq(s, k + 1, Len(s)))

\* the range checks with the minutes checked before the hours
offsetRangeChecks_minutesFirst(sign, hours, minutes, rawText, position) ==
    IF minutes < 0 \/ minutes > 59
    THEN [ok |-> FALSE, err |-> ParseError(<<"Offset minutes must be 0-59">>, position)]
    ELSE IF hours < 0 \/ hours > 14
    THEN [ok |-> FALSE, err |-> ParseError(<<"Offset hours must be 0-14">>, position)]
    ELSE [ok |-> TRUE,
          val |-> [kind |-> "NumericOffset", sign |-> sign, hours |-> hours,
                   minutes |-> minutes, raw |-> rawText]]

\* the range checks and the value returned, once hours and minutes are read
offsetRangeChecks(sign, hours, minutes, rawText, position) ==
    IF hours < 0 \/ hours > MAX_OFFSET_HOURS
    THEN [ok |-> FALSE, err |-> ParseError(<<"Offset hours must be 0-14">>, position)]
    ELSE IF minutes < 0 \/ minutes > MAX_MINUTES
    THEN [ok |-> FALSE, err |-> ParseError(<<"Offset minutes must be 0-59">>, position)]
    ELSE [ok |-> TRUE,
          val |-> [kind |-> "NumericOffset", sign |-> sign, hours |-> hours,
                   minutes |-> minutes, raw |-> rawText]]

\* hours and minutes read by toInt, then the range checks
offsetFrom(sign, hoursText, minutesText, rawText, position) ==
    Bind(toInt(hoursText, "offset hours", position), LAMBDA h :
    IF ~h.ok THEN h ELSE
    Bind(toInt(minutesText, "offset minutes", position), LAMBDA m :
    IF ~m.ok THEN m ELSE
    offsetRangeChecks(sign, h.n, m.n, rawText, position)))

parseOffset(offsetString, position) ==
    IF Len(offsetString) = 0
    THEN Fail(ParseError(<<"Offset string cannot be empty">>, position)) ELSE
    Bind(offsetString[1], LAMBDA sign :
    Bind(SliceFrom(offsetString, 1), LAMBDA rest :
    IF sign # "+" /\ sign # "-"
    THEN Fail(ParseError(<<"Offset must start with + or -">>, position)) ELSE
    IF Len(rest) = 0
    THEN Fail(ParseError(<<"Offset sign must be followed by digits">>, position)) ELSE
    IF Includes(rest, ":")
    THEN Bind(SplitColon(rest), LAMBDA parts :
         IF Len(parts) # 2
         THEN Fail(ParseError(<<"Invalid offset format", "expected HH:MM">>, position))
         ELSE offsetFrom(sign, parts[1], parts[2], offsetString, position))
    ELSE IF Len(rest) = 4
    THEN offsetFrom(sign, Slice(rest, 0, 2), Slice(rest, 2, 4), offsetString, position)
    ELSE IF Len(rest) = 2
    THEN Bind(toInt(rest, "offset hours", position), LAMBDA h :
         IF ~h.ok THEN h ELSE offsetRangeChecks(sign, h.n, 0, offsetString, position))
    ELSE Fail(ParseError(<<"Invalid offset format", "expected +HH:MM, +HHMM, or +HH">>,
                         position))))

----------------------------------------------------------------------------
(* Recursive-descent parser.  Every production takes the token array and the *)
(* cursor i and returns either [ok |-> TRUE, i, val] or [ok |-> FALSE, err]. *)

peek(ts, i, k) == ts[Min(i + k, Len(ts) - 1) + 1]
at(ts, i, type) == peek(ts, i, 0).type = type
eat(ts, i, type) ==
    IF peek(ts, i, 0).type # type
    THEN [ok |-> FALSE,
          err |-> ParseError(<<"Expected", type, "but got", peek(ts, i, 0).type>>, i)]
    ELSE [ok |-> TRUE, i |-> i + 1, val |-> peek(ts, i, 0)]
eof(ts, i) == at(ts, i, "EOF")

\* the loop of parseBracketGroup that gathers token texts until RBracket
RECURSIVE gatherBracket(_, _, _)
gatherBracket(ts, i, parts) ==
    IF at(ts, i, "RBracket") THEN Ok(i, parts)
    ELSE IF eof(ts, i) THEN Fail(ParseError(<<"Unterminated bracket group">>, i))
    ELSE gatherBracket(ts, i + 1, parts \o peek(ts, i, 0).value)

\* Heuristic of parseBracketGroup: no '=' and a '/' (or a leading "Etc/")
isLikelyTzId(contentToParse) ==
    /\ ~Includes(contentToParse, "=")
    /\ \/ Includes(contentToParse, "/")
       \/ StartsWith(contentToParse, <<"E", "t", "c", "/">>)

\* the pairs of the group are a function of raw that no operation reads; they
\* are not carried in the model
parseBracketGroup(ts, i0) ==
    Bind(eat(ts, i0, "LBracket"), LAMBDA lb :
    IF ~lb.ok THEN lb ELSE
    Bind(at(ts, lb.i, "Exclamation"), LAMBDA critical :
    Bind(gatherBracket(ts, IF critical THEN lb.i + 1 ELSE lb.i,
                       IF critical THEN <<"!">> ELSE <<>>), LAMBDA g :
    IF ~g.ok THEN g ELSE
    Ok(g.i + 1,
       [raw |-> g.val, critical |-> critical,
        isLikelyTzId |-> isLikelyTzId(IF critical THEN SliceFrom(g.val, 1) ELSE g.val)]))))

DateOf(year, month, day) == [kind |-> "Date", year |-> year, month |-> month, day |-> day]

parseDate(ts, i0) ==
    Bind(eat(ts, i0, "Number"), LAMBDA y :
    IF ~y.ok THEN y ELSE
    Bind(toInt(y.val.value, "year", y.i), LAMBDA year :
    IF ~year.ok THEN year ELSE
    IF ~at(ts, y.i, "Dash") THEN Ok(y.i, DateOf(year.n, None, None)) ELSE
    Bind(eat(ts, y.i + 1, "Number"), LAMBDA m :
    IF ~m.ok THEN m ELSE
    Bind(toInt(m.val.value, "month", m.i), LAMBDA month :
    IF ~month.ok THEN month ELSE
    IF ~at(ts, m.i, "Dash") THEN Ok(m.i, DateOf(year.n, Some(month.n), None)) ELSE
    Bind(eat(ts, m.i + 1, "Number"), LAMBDA d :
    IF ~d.ok THEN d ELSE
    Bind(toInt(d.val.value, "day", d.i), LAMBDA day :
    IF ~day.ok THEN day ELSE
    Ok(d.i, DateOf(year.n, Some(month.n), Some(day.n)))))))))

TimeOf(hour, minute, second, fraction) ==
    [kind |-> "Time", hour |-> hour, minute |-> minute, second |-> second,
     fraction |-> fraction]

parseTime(ts, i0) ==
    Bind(eat(ts, i0, "Number"), LAMBDA h :
    IF ~h.ok THEN h ELSE
    Bind(toInt(h.val.value, "hour", h.i), LAMBDA hour :
    IF ~hour.ok THEN hour ELSE
    Bind(eat(ts, h.i, "Colon"), LAMBDA c :
    IF ~c.ok THEN c ELSE
    Bind(eat(ts, c.i, "Number"), LAMBDA mt :
    IF ~mt.ok THEN mt ELSE
    Bind(toInt(mt.val.value, "minute", mt.i), LAMBDA minute :
    IF ~minute.ok THEN minute ELSE
    IF ~at(ts, mt.i, "Colon") THEN Ok(mt.i, TimeOf(hour.n, minute.n, None, None)) ELSE
    Bind(eat(ts, mt.i + 1, "Number"), LAMBDA st :
    IF ~st.ok THEN st ELSE
    Bind(toInt(st.val.value, "second", st.i), LAMBDA second :
    IF ~second.ok THEN second ELSE
    IF ~at(ts, st.i, "Dot")
    THEN Ok(st.i, TimeOf(hour.n, minute.n, Some(second.n), None)) ELSE
    Bind(eat(ts, st.i + 1, "Number"), LAMBDA f :
    IF ~f.ok THEN f ELSE
    Ok(f.i, TimeOf(hour.n, minute.n, Some(second.n), Some(f.val.value)))))))))))

\* parseOffsetIfPresent reading a numeric offset of zero as UTC
parseOffsetIfPresent_zeroIsUtc(ts, i0) ==
    IF at(ts, i0, "Z") THEN Ok(i0 + 1, Some([kind |-> "UtcOffset"]))
    ELSE IF at(ts, i0, "TZOffset")
    THEN Bind(parseOffset(peek(ts, i0, 0).value, i0 + 1), LAMBDA o :
         IF ~o.ok THEN o
         ELSE IF o.val.hours = 0 /\ o.val.minutes = 0
              THEN Ok(i0 + 1, Some([kind |-> "UtcOffset"]))
              ELSE Ok(i0 + 1, Some(o.val)))
    ELSE Ok(i0, None)

\* val is an optional OffsetAst
parseOffsetIfPresent(ts, i0) ==
    IF at(ts, i0, "Z") THEN Ok(i0 + 1, Some([kind |-> "UtcOffset"]))
    ELSE IF at(ts, i0, "TZOffset")
    THEN Bind(parseOffset(peek(ts, i0, 0).value, i0 + 1), LAMBDA o :
         IF ~o.ok THEN o ELSE Ok(i0 + 1, Some(o.val)))
    ELSE Ok(i0, None)

Annotation(g) == [kind |-> "Annotation", raw |-> g.raw, critical |-> g.critical]

TimeZoneOf(g) ==
    [kind |-> "IanaTimeZone",
     id |-> IF g.critical THEN SliceFrom(g.raw, 1) ELSE g.raw,
     critical |-> g.critical]

\* the bracket loop taking the last time-zone shaped group as the time zone
RECURSIVE dateTimeGroups_lastWins(_, _, _, _)
dateTimeGroups_lastWins(ts, i, timeZone, annotations) ==
    IF ~at(ts, i, "LBracket")
    THEN Ok(i, [timeZone |-> timeZone, annotations |-> annotations])
    ELSE Bind(parseBracketGroup(ts, i), LAMBDA g :
         IF ~g.ok THEN g
         ELSE IF g.val.isLikelyTzId
              THEN dateTimeGroups_lastWins(ts, g.i, Some(TimeZoneOf(g.val)), annotations)
              ELSE dateTimeGroups_lastWins(ts, g.i, timeZone, Append(annotations, Annotation(g.val))))

\* the bracket loop of parseDateTime
RECURSIVE dateTimeGroups(_, _, _, _)
dateTimeGroups(ts, i, timeZone, annotations) ==
    IF ~at(ts, i, "LBracket")
    THEN Ok(i, [timeZone |-> timeZone, annotations |-> annotations])
    ELSE Bind(parseBracketGroup(ts, i), LAMBDA g :
         IF ~g.ok THEN g
         ELSE IF timeZone = None /\ g.val.isLikelyTzId
              THEN dateTimeGroups(ts, g.i, Some(TimeZoneOf(g.val)), annotations)
              ELSE dateTimeGroups(ts, g.i, timeZone, Append(annotations, Annotation(g.val))))

parseDateTime(ts, i0) ==
    Bind(parseDate(ts, i0), LAMBDA date :
    IF ~date.ok THEN date ELSE
    Bind(IF at(ts, date.i, "T")
         THEN Bind(parseTime(ts, date.i + 1), LAMBDA t :
                   IF ~t.ok THEN t ELSE Ok(t.i, Some(t.val)))
         ELSE Ok(date.i, None), LAMBDA time :
    IF ~time.ok THEN time ELSE
    Bind(parseOffsetIfPresent(ts, time.i), LAMBDA offset :
    IF ~offset.ok THEN offset ELSE
    Bind(dateTimeGroups(ts, offset.i, None, <<>>), LAMBDA groups :
    IF ~groups.ok THEN groups ELSE
    Ok(groups.i, [kind |-> "DateTime", date |-> date.val, time |-> time.val,
                  offset |-> offset.val, timeZone |-> groups.val.timeZone,
                  annotations |-> groups.val.annotations])))))

\* the field overwritten by the last number
Accumulate_overwrite(o, n) == Some(n)

\* dur.field = (dur.field ?? 0) + n
Accumulate(o, n) == Some(NumberPlus(IF IsSome(o) THEN Val(o) ELSE 0, n))

EmptyDur ==
    [years |-> None, months |-> None, weeks |-> None, days |-> None,
     hours |-> None, minutes |-> None, seconds |-> None, secondsFraction |-> None]

\* the unit table of parseDuration: dur after the pair (n, fraction, unit)
\* a fraction kept whatever time designator it is written on
durationUnit_fractionOnAnyUnit(dur, inTime, unit, n, fraction, i) ==
    IF ~inTime
    THEN IF unit = <<"Y">> THEN Ok(i, [dur EXCEPT !.years = Accumulate(@, n)])
         ELSE IF unit = <<"M">> THEN Ok(i, [dur EXCEPT !.months = Accumulate(@, n)])
         ELSE IF unit = <<"W">> THEN Ok(i, [dur EXCEPT !.weeks = Accumulate(@, n)])
         ELSE IF unit = <<"D">> THEN Ok(i, [dur EXCEPT !.days = Accumulate(@, n)])
         ELSE Fail(ParseError(<<"Invalid duration unit", "in date part">>, i))
    ELSE IF unit = <<"H">>
         THEN Ok(i, [dur EXCEPT !.hours = Accumulate(@, n),
                                !.secondsFraction = IF IsSome(fraction) THEN fraction ELSE @])
         ELSE IF unit = <<"M">>
         THEN Ok(i, [dur EXCEPT !.minutes = Accumulate(@, n),
                                !.secondsFraction = IF IsSome(fraction) THEN fraction ELSE @])
         ELSE IF unit = <<"S">>
         THEN Ok(i, [dur EXCEPT !.seconds = Accumulate(@, n),
                                !.secondsFraction =
                                    IF IsSome(fraction) /\ Len(Val(fraction)) > 0
                                    THEN fraction ELSE @])
         ELSE Fail(ParseError(<<"Invalid duration unit", "in time part">>, i))

durationUnit(dur, inTime, unit, n, fraction, i) ==
    IF ~inTime
    THEN IF unit = <<"Y">> THEN Ok(i, [dur EXCEPT !.years = Accumulate(@, n)])
         ELSE IF unit = <<"M">> THEN Ok(i, [dur EXCEPT !.months = Accumulate(@, n)])
         ELSE IF unit = <<"W">> THEN Ok(i, [dur EXCEPT !.weeks = Accumulate(@, n)])
         ELSE IF unit = <<"D">> THEN Ok(i, [dur EXCEPT !.days = Accumulate(@, n)])
         ELSE Fail(ParseError(<<"Invalid duration unit", "in date part">>, i))
    ELSE IF unit = <<"H">> THEN Ok(i, [dur EXCEPT !.hours = Accumulate(@, n)])
         ELSE IF unit = <<"M">> THEN Ok(i, [dur EXCEPT !.minutes = Accumulate(@, n)])
         ELSE IF unit = <<"S">>
         THEN Ok(i, [dur EXCEPT !.seconds = Accumulate(@, n),
                                !.secondsFraction =
                                    IF IsSome(fraction) /\ Len(Val(fraction)) > 0
                                    THEN fraction ELSE @])
         ELSE Fail(ParseError(<<"Invalid duration unit", "in time part">>, i))

\* the optional fraction of a duration number at cursor i: val is [fraction, raw]
durationFraction(ts, i) ==
    IF ~at(ts, i, "Dot") THEN Ok(i, [fraction |-> None, raw |-> <<>>])
    ELSE Bind(eat(ts, i + 1, "Number"), LAMBDA fracTok :
         IF ~fracTok.ok THEN fracTok
         ELSE Ok(fracTok.i, [fraction |-> Some(fracTok.val.value),
                             raw |-> <<".">> \o fracTok.val.value]))

\* the designator loop of parseDuration; val is [dur, raw]
RECURSIVE durationLoop(_, _, _, _, _)
durationLoop(ts, i, inTime, dur, rawParts) ==
    IF eof(ts, i) \/ at(ts, i, "Slash") \/ at(ts, i, "LBracket")
    THEN Ok(i, [dur |-> dur, raw |-> rawParts])
    ELSE IF at(ts, i, "T")
    THEN durationLoop(ts, i + 1, TRUE, dur, rawParts \o <<"T">>)
    ELSE IF ~at(ts, i, "Number")
    THEN Ok(i, [dur |-> dur, raw |-> rawParts])
    ELSE
    Bind(peek(ts, i, 0), LAMBDA numTok :
    Bind(durationFraction(ts, i + 1), LAMBDA frac :
    IF ~frac.ok THEN frac ELSE
    Bind(eat(ts, frac.i, "Ident"), LAMBDA unitTok :
    IF ~unitTok.ok THEN unitTok ELSE
    Bind(toInt(numTok.value, "duration number", unitTok.i), LAMBDA n :
    IF ~n.ok THEN n ELSE
    Bind(durationUnit(dur, inTime, unitTok.val.value, n.n, frac.val.fraction, unitTok.i),
         LAMBDA d :
    IF ~d.ok THEN d ELSE
    durationLoop(ts, unitTok.i, inTime, d.val,
                 rawParts \o numTok.value \o frac.val.raw \o unitTok.val.value))))))

\* the annotation loop of parseDuration
RECURSIVE durationGroups(_, _, _)
durationGroups(ts, i, annotations) ==
    IF ~at(ts, i, "LBracket") THEN Ok(i, annotations)
    ELSE Bind(parseBracketGroup(ts, i), LAMBDA g :
         IF ~g.ok THEN g
         ELSE durationGroups(ts, g.i, Append(annotations, Annotation(g.val))))

DurationOf(dur, rawText, annotations) ==
    [kind |-> "Duration",
     years |-> dur.years, months |-> dur.months, weeks |-> dur.weeks, days |-> dur.days,
     hours |-> dur.hours, minutes |-> dur.minutes, seconds |-> dur.seconds,
     secondsFraction |-> dur.secondsFraction, raw |-> rawText, annotations |-> annotations]

\* parseDuration starting in the time part
parseDuration_startInTime(ts, i0) ==
    Bind(eat(ts, i0, "Ident"), LAMBDA pTok :
    IF ~pTok.ok THEN pTok ELSE
    IF pTok.val.value # <<"P">>
    THEN Fail(ParseError(<<"Duration must start with 'P'">>, pTok.i)) ELSE
    Bind(durationLoop(ts, pTok.i, TRUE, EmptyDur, <<"P">>), LAMBDA body :
    IF ~body.ok THEN body ELSE
    Bind(durationGroups(ts, body.i, <<>>), LAMBDA groups :
    IF ~groups.ok THEN groups ELSE
    Ok(groups.i, DurationOf(body.val.dur, body.val.raw, groups.val)))))

parseDuration(ts, i0) ==
    Bind(eat(ts, i0, "Ident"), LAMBDA pTok :
    IF ~pTok.ok THEN pTok ELSE
    IF pTok.val.value # <<"P">>
    THEN Fail(ParseError(<<"Duration must start with 'P'">>, pTok.i)) ELSE
    Bind(durationLoop(ts, pTok.i, FALSE, EmptyDur, <<"P">>), LAMBDA body :
    IF ~body.ok THEN body ELSE
    Bind(durationGroups(ts, body.i, <<>>), LAMBDA groups :
    IF ~groups.ok THEN groups ELSE
    Ok(groups.i, DurationOf(body.val.dur, body.val.raw, groups.val)))))

\* a ValueAst wrapped as the non-null result of parseValueOrNull
NonNull(r) == IF ~r.ok THEN r ELSE Ok(r.i, Some(r.val))

\* val is an optional ValueAst (None is null)
parseValueOrNull(ts, i) ==
    IF at(ts, i, "EOF") \/ at(ts, i, "Slash") \/ at(ts, i, "RBracket")
    THEN Ok(i, None)
    ELSE IF at(ts, i, "Ident") /\ peek(ts, i, 0).value = <<"P">>
    THEN Bind(parseDuration(ts, i), LAMBDA d : NonNull(d))
    ELSE Bind(parseDateTime(ts, i), LAMBDA d : NonNull(d))

\* the second side of a range returned whatever token follows it
rangeEnd_anyRest(ts, i, start) ==
    Bind(parseValueOrNull(ts, i), LAMBDA end :
    IF ~end.ok THEN end ELSE
    Ok(end.i, [kind |-> "Range", start |-> start, end |-> end.val]))

\* the rest of Parser.parseTemporal once a '/' is consumed at cursor i - 1
rangeEnd(ts, i, start) ==
    Bind(parseValueOrNull(ts, i), LAMBDA end :
    IF ~end.ok THEN end ELSE
    Bind(eat(ts, end.i, "EOF"), LAMBDA e :
    IF ~e.ok THEN e ELSE
    Ok(e.i, [kind |-> "Range", start |-> start, end |-> end.val])))

\* Parser.parseTemporal returning a single value whatever token follows it
parserParseTemporal_anyRest(ts) ==
    IF at(ts, 0, "Slash") THEN rangeEnd(ts, 1, None) ELSE
    Bind(parseValueOrNull(ts, 0), LAMBDA first :
    IF ~first.ok THEN first ELSE
    IF first.val = None THEN Fail(ParseError(<<"Expected a value">>, first.i)) ELSE
    IF at(ts, first.i, "Slash") THEN rangeEnd(ts, first.i + 1, first.val) ELSE
    Ok(first.i, Val(first.val)))

\* Parser.parseTemporal on a fresh parser (cursor 0)
parserParseTemporal(ts) ==
    IF at(ts, 0, "Slash") THEN rangeEnd(ts, 1, None) ELSE
    Bind(parseValueOrNull(ts, 0), LAMBDA first :
    IF ~first.ok THEN first ELSE
    IF first.val = None THEN Fail(ParseError(<<"Expected a value">>, first.i)) ELSE
    IF at(ts, first.i, "Slash") THEN rangeEnd(ts, first.i + 1, first.val) ELSE
    Bind(eat(ts, first.i, "EOF"), LAMBDA e :
    IF ~e.ok THEN e ELSE Ok(e.i, Val(first.val))))

----------------------------------------------------------------------------
(* Stringifier *)

RECURSIVE JoinDash(_)
JoinDash(parts) ==
    IF Len(parts) = 1 THEN parts[1] ELSE parts[1] \o <<"-">> \o JoinDash(Tail(parts))

\* stringifyDate without the zero padding of the year
stringifyDate_unpadded(date) ==
    JoinDash(<<IntToStr(date.year)>>
             \o (IF IsSome(date.month)
                 THEN <<padStart(IntToStr(Val(date.month)), 2)>>
                      \o (IF IsSome(date.day)
                          THEN <<padStart(IntToStr(Val(date.day)), 2)>> ELSE <<>>)
                 ELSE <<>>))

stringifyDate(date) ==
    JoinDash(<<padStart(IntToStr(date.year), 4)>>
             \o (IF IsSome(date.month)
                 THEN <<padStart(IntToStr(Val(date.month)), 2)>>
                      \o (IF IsSome(date.day)
                          THEN <<padStart(IntToStr(Val(date.day)), 2)>> ELSE <<>>)
                 ELSE <<>>))

stringifyTime(time) ==
    padStart(IntToStr(time.hour), 2) \o <<":">> \o padStart(IntToStr(time.minute), 2)
      \o (IF IsSome(time.second)
          THEN <<":">> \o padStart(IntToStr(Val(time.second)), 2)
               \o (IF IsSome(time.fraction) THEN <<".">> \o Val(time.fraction) ELSE <<>>)
          ELSE <<>>)

\* stringifyOffset echoing the text the offset was parsed from
stringifyOffset_raw(offset) ==
    IF offset.kind = "UtcOffset" THEN <<"Z">> ELSE offset.raw

stringifyOffset(offset) ==
    IF offset.kind = "UtcOffset" THEN <<"Z">>
    ELSE <<offset.sign>> \o padStart(IntToStr(offset.hours), 2) \o <<":">>
           \o padStart(IntToStr(offset.minutes), 2)

stringifyTimeZone(timeZone) ==
    <<"[">> \o (IF timeZone.critical THEN <<"!">> \o timeZone.id ELSE timeZone.id) \o <<"]">>

stringifyAnnotation(annotation) == <<"[">> \o annotation.raw \o <<"]">>

RECURSIVE stringifyAnnotations(_)
stringifyAnnotations(as) ==
    IF as = <<>> THEN <<>>
    ELSE stringifyAnnotation(Head(as)) \o stringifyAnnotations(Tail(as))

stringifyDateTime(dateTime) ==
    stringifyDate(dateTime.date)
      \o (IF IsSome(dateTime.time) THEN <<"T">> \o stringifyTime(Val(dateTime.time)) ELSE <<>>)
      \o (IF IsSome(dateTime.offset) THEN stringifyOffset(Val(dateTime.offset)) ELSE <<>>)
      \o (IF IsSome(dateTime.timeZone) THEN stringifyTimeZone(Val(dateTime.timeZone)) ELSE <<>>)
      \o stringifyAnnotations(dateTime.annotations)

\* a field written only when it is not zero
Field_skipZero(o, letter) ==
    IF IsSome(o) /\ Val(o) # 0 THEN IntToStr(Val(o)) \o <<letter>> ELSE <<>>

Field(o, letter) == IF IsSome(o) THEN IntToStr(Val(o)) \o <<letter>> ELSE <<>>

stringifyDuration(duration) ==
    LET hasTimePart ==
            IsSome(duration.hours) \/ IsSome(duration.minutes) \/ IsSome(duration.seconds)
    IN <<"P">>
         \o Field(duration.years, "Y") \o Field(duration.months, "M")
         \o Field(duration.weeks, "W") \o Field(duration.days, "D")
         \o (IF hasTimePart
             THEN <<"T">> \o Field(duration.hours, "H") \o Field(duration.minutes, "M")
                  \o (IF IsSome(duration.seconds)
                      THEN IntToStr(Val(duration.seconds))
                           \o (IF IsSome(duration.secondsFraction)
                                  /\ Len(Val(duration.secondsFraction)) > 0
                               THEN <<".">> \o Val(duration.secondsFraction) ELSE <<>>)
                           \o <<"S">>
                      ELSE <<>>)
             ELSE <<>>)
         \o stringifyAnnotations(duration.annotations)

stringifyValue(v) ==
    IF v.kind = "Duration" THEN stringifyDuration(v) ELSE stringifyDateTime(v)

stringifyRange(range) ==
    (IF IsSome(range.start) THEN stringifyValue(Val(range.start)) ELSE <<>>)
      \o <<"/">>
      \o (IF IsSome(range.end) THEN stringifyValue(Val(range.end)) ELSE <<>>)

stringifyTemporal(a) ==
    IF a.kind = "Range" THEN stringifyRange(a)
    ELSE IF a.kind = "Duration" THEN stringifyDuration(a)
    ELSE stringifyDateTime(a)

----------------------------------------------------------------------------
(* Inputs of parseTemporal *)

\* all sequences over S of length at most n
RECURSIVE SeqsUpTo(_, _)
SeqsUpTo(S, n) ==
    IF n = 0 THEN {<<>>}
    ELSE LET shorter == SeqsUpTo(S, n - 1)
         IN shorter \cup {Append(q, x) : q \in shorter, x \in S}

\* dates, times and offsets in the form the stringifier writes
CanonDates == {<<"2", "0", "2", "5">>, <<"2", "0", "2", "5", "-", "0", "1">>, <<"2", "0", "2", "5", "-", "0", "1", "-", "1", "2">>, <<"0", "0", "0", "7", "-", "0", "3", "-", "0", "4">>}
CanonTimes == {<<>>, <<"T", "1", "0", ":", "3", "0">>, <<"T", "1", "0", ":", "3", "0", ":", "4", "5">>, <<"T", "1", "0", ":", "3", "0", ":", "4", "5", ".", "1", "2", "3">>, <<"T", "0", "0", ":", "0", "0", ":", "0", "0", ".", "5">>}
CanonOffsets == {<<>>, <<"Z">>, <<"+", "0", "8", ":", "0", "0">>, <<"-", "0", "5", ":", "3", "0">>, <<"+", "0", "0", ":", "0", "0">>, <<"-", "0", "0", ":", "0", "0">>, <<"+", "1", "4", ":", "0", "0">>}

\* other spellings the parser is given
OtherDates == {<<"2", "5">>, <<"2", "0", "2", "5", "-", "1", "-", "2">>, <<"1", "2", "0", "2", "5", "-", "0", "1", "-", "1", "2">>}
OtherTimes == {<<"T", "1", ":", "5">>, <<"T", "1", "0", ":", "3", "0", ":", "4", "5", ",", "1", "2", "3">>, <<"T", "1", "0", ":", "3", "0", ":", "4", "5", ".">>, <<"T", "1", "0">>, <<"T", "1", "0", ":", "3", "0", ":", "5">>}
OtherOffsets == {<<"-", "0", "0", "0", "0">>, <<"+", "0", "5", "3", "0">>, <<"+", "0", "9">>, <<"-", "0", "8", "0", "0">>, <<"+", "1", "5", ":", "0", "0">>, <<"-", "1", "5", ":", "0", "0">>, <<"+", "0", "8", ":", "6", "0">>, <<"+", "8", ":", "0", "0">>,
                 <<"+", "1", "2", "3">>, <<"z">>, <<"Z", "+", "0", "8", ":", "0", "0">>, <<"+", "0", "8", ":", "0", "0", "Z">>}

\* bracket groups: time-zone shaped, key=value, flags, critical ones
CanonGroups == {<<"[", "A", "s", "i", "a", "/", "S", "i", "n", "g", "a", "p", "o", "r", "e", "]">>, <<"[", "E", "t", "c", "/", "U", "T", "C", "]">>, <<"[", "!", "a", "/", "b", "]">>, <<"[", "u", "-", "c", "a", "=", "g", "r", "e", "g", "o", "r", "y", "]">>,
                <<"[", "!", "u", "-", "c", "a", "=", "g", "r", "e", "g", "o", "r", "y", "]">>, <<"[", "x", "]">>, <<"[", "]">>}
OtherGroups == {<<"[", " ", "a", "/", "b", " ", "]">>, <<"[", "!", "!", "a", "/", "b", "]">>, <<"[", "a", "/", "b", "=", "c", "]">>, <<"[", "u", "-", "c", "a", " ", "=", " ", "g", "r", "e", "g", "o", "r", "y", "]">>}

GroupLists(G) == {Flatten(gs) : gs \in SeqsUpTo(G, MaxGroups)}

\* designator items of a duration body
CanonDurItems == {<<"1", "Y">>, <<"2", "Y">>, <<"0", "M">>, <<"3", "W">>, <<"1", "D">>, <<"T">>, <<"1", "H">>, <<"6", "S">>, <<"1", ".", "5", "S">>}
OtherDurItems == {<<"1", ".", "5", "H">>, <<"0", "1", "Y">>, <<"1", ",", "5", "S">>, <<"1", "Y", "M">>, <<"1">>, <<"1", "Z">>}

DurBodies(I) == {Flatten(items) : items \in SeqsUpTo(I, MaxDurItems)}

\* durations as the stringifier writes them: every designator at most once, in
\* the order Y M W D T H M S, a fraction on S only, T only before a time field
NormalDurations ==
    {<<"P">> \o y \o mo \o w \o d \o t :
        y \in {<<>>, <<"1", "Y">>, <<"1", "2", "Y">>}, mo \in {<<>>, <<"0", "M">>}, w \in {<<>>, <<"3", "W">>},
        d \in {<<>>, <<"1", "D">>},
        t \in {<<>>} \cup ({<<"T">> \o h \o mi \o sec :
                              h \in {<<>>, <<"1", "H">>}, mi \in {<<>>, <<"5", "M">>},
                              sec \in {<<>>, <<"6", "S">>, <<"1", ".", "5", "S">>, <<"0", ".", "0", "2", "5", "S">>}} \ {<<"T">>})}

\* the date-times that bracket groups are appended to
GroupBases == {<<"2", "0", "2", "5", "-", "0", "1", "-", "1", "2">>, <<"2", "0", "2", "5", "-", "0", "1", "-", "1", "2", "T", "1", "0", ":", "0", "0", ":", "0", "0">>, <<"2", "0", "2", "5", "-", "0", "1", "-", "1", "2", "T", "1", "0", ":", "0", "0", ":", "0", "0", "+", "0", "8", ":", "0", "0">>,
               <<"2", "0", "2", "5", "-", "0", "1", "-", "1", "2", "T", "1", "0", ":", "0", "0", ":", "0", "0", "Z">>}

\* durations with a decimal fraction on the last designator, not the seconds
FractionalDurations == {<<"P", "T", "1", ".", "5", "H">>, <<"P", "1", ".", "5", "Y">>, <<"P", "1", "Y", "T", "2", ".", "5", "M">>, <<"P", "0", ".", "5", "D">>}

DateTimeInputs ==
    {d \o t \o o : d \in CanonDates \cup OtherDates, t \in CanonTimes \cup OtherTimes,
                   o \in CanonOffsets \cup OtherOffsets}
      \cup {d \o g : d \in GroupBases, g \in GroupLists(CanonGroups \cup OtherGroups)}

DurationInputs ==
    NormalDurations \cup FractionalDurations
      \cup {<<"P">> \o b : b \in DurBodies(CanonDurItems)}
      \cup {<<"P">> \o b : b \in DurBodies(OtherDurItems \cup {<<"1", "Y">>, <<"T">>, <<"1", "S">>})}
      \cup {<<"P", "1", "Y", "2", "M", "3", "D", "T", "4", "H", "5", "M", "6", "S">>, <<"P", "1", "Y", "2", "M", "3", "W", "4", "D", "T", "5", "H", "6", "M", "7", "S">>, <<"P", "T", "1", "H", "3", "0", "M", "4", "5", ".", "2", "5", "S">>, <<"P", "T", "1", "H", "T", "1", "Y">>, <<"P", "T", "1", "H", "T", "1", "D">>,
            <<"P", "1", "H">>, <<"P", "T", "1", "Y">>, <<"P", "1", "Y", "T", "1", "W">>, <<"P", "T", "1", "D">>, <<"P", "1", "S">>, <<"P", "1", "Y", "T", "2", "M", "T", "3", "M">>, <<"P", "1", "M", "2", "M", "T", "1", "M", "2", "M">>}
      \cup {<<"P", "1", "D">> \o g : g \in GroupLists({<<"[", "a", "/", "b", "]">>, <<"[", "u", "-", "c", "a", "=", "g", "r", "e", "g", "o", "r", "y", "]">>, <<"[", "!", "x", "]">>})}

CanonRangeSides == {<<>>, <<"2", "0", "2", "5", "-", "0", "1", "-", "0", "1">>, <<"2", "0", "2", "5", "-", "1", "2", "-", "3", "1", "T", "1", "0", ":", "0", "0", ":", "0", "0", "+", "0", "8", ":", "0", "0", "[", "a", "/", "b", "]">>, <<"P", "1", "Y">>, <<"P", "T", "1", ".", "5", "S">>,
                    <<"2", "0", "2", "5", "-", "0", "1", "-", "0", "1", "T", "1", "0", ":", "0", "0", "Z">>}
RangeSides == CanonRangeSides \cup {<<"2", "0", "2", "5", "-", "1">>, <<"P", "1", "Y", "1", "Y">>, <<"x">>}

RangeInputs == {a \o <<"/">> \o b : a \in RangeSides, b \in RangeSides}
                 \cup {<<"2", "0", "2", "5", "/", "2", "0", "2", "6", "/", "2", "0", "2", "7">>, <<"/", "/">>, <<"P", "1", "D", "/", "P", "7", "D", "/">>}

\* text no production accepts, white space, and lexical errors
OddInputs == {<<"2", "0", "2", "5", "-", "0", "1", "-", "0", "7", "+", "0", "8", ":", "0", "0">>, <<"2", "0", "2", "5", "-", "0", "1", "-", "0", "7", "Z">>, <<"-", "0", "0", "4", "4", "-", "0", "3", "-", "1", "5">>, <<"0", "0", "0", "0", "-", "0", "1", "-", "0", "1">>, <<"-", "0", "1", "0", "0">>, <<>>, <<" ">>, <<"2", "0", "2", "5", "-", "0", "1", "-", "1", "2", " ">>, <<"2", "0", "2", "5", " ", "-", "0", "1">>, <<"T", "1", "0", ":", "0", "0">>, <<"+", "0", "8", ":", "0", "0">>, <<"1", "0", ":", "0", "0", ":", "0", "0", "+", "0", "8", ":", "0", "0">>,
              <<"[", "x", "]", "+", "0", "8", ":", "0", "0">>, <<"2", "0", "2", "5", "-", "0", "1", "-", "1", "2", "+", "0", "8", ":", "0", "0">>, <<"2", "0", "2", "5", "-", "0", "1", "-", "1", "2", "Z">>, <<"2", "0", "2", "5", "-", "0", "1", "-", "1", "2", "T", "1", "0", ":", "0", "0", ":", "0", "0", "+", "0", "8", ":", "0", "0", " ", "[", "x", "]">>,
              <<"2", "0", "2", "5", "-", "0", "1", "-", "1", "2", "T", "1", "0", ":", "0", "0", ":", "0", "0", "#">>, <<"2", "0", "2", "5", "-", "0", "1", "-", "1", "2", "[", "x">>, <<"2", "0", "2", "5", "-", "0", "1", "-", "1", "2", "[", "x", "#", "]">>, <<"2", "0", "2", "5", "-", "0", "1", "-", "1", "2", "]">>,
              <<"p", "1", "Y">>, <<"D", "T">>, <<"2", "0", "2", "5", "-", "0", "1", "-", "1", "2", "T", "1", "0", ":", "3", "0", ":", "4", "5", ",", "1", "2", "3", "+", "0", "8", ":", "0", "0">>, <<"2", "0", "2", "5", "-", "0", "1", "-", "1", "2", "T", "1", "0", ":", "3", "0", ":", "4", "5", ".", "1", "2", "3", "-", "0", "8", ":", "0", "0">>,
              <<"2", "0", "2", "5", "-", "0", "1", "-", "1", "2", "T", "1", "0", ":", "0", "0", ":", "0", "0", "+", "0", "8", ":", "0", "0", "[", "A", "s", "i", "a", "/", "S", "i", "n", "g", "a", "p", "o", "r", "e", "]", "[", "u", "-", "c", "a", "=", "g", "r", "e", "g", "o", "r", "y", "]">>, <<"2", "0", "2", "5", "-", "0", "1", "-", "1", "2", "X">>}

TemporalInputs == DateTimeInputs \cup DurationInputs \cup RangeInputs \cup OddInputs

----------------------------------------------------------------------------
(* parseTemporal followed by stringifyTemporal *)

NoAst == [kind |-> "none"]

\* no loop is being stepped through
NoLoop == [i |-> 0]

Init ==
    /\ pc = "start"
    /\ src \in TemporalInputs
    /\ raw = <<>>
    /\ toks = <<>>
    /\ toks2 = <<>>
    /\ ast = NoAst
    /\ err = NoError
    /\ out = <<>>
    /\ loop = NoLoop

\* parseTemporal(src): lexTemporal, combineTimezoneOffsets, Parser.parseTemporal
ParseTemporal ==
    /\ pc = "start"
    /\ \E lexed \in {lexTemporal(src)} :
         IF ~lexed.ok
         THEN /\ err' = lexed.err
              /\ pc' = "failed"
              /\ UNCHANGED <<raw, toks, ast>>
         ELSE \E fused \in {combineTimezoneOffsets(lexed.tokens)} :
              \E parsed \in {parserParseTemporal(fused)} :
                 /\ raw' = lexed.tokens
                 /\ toks' = fused
                 /\ IF parsed.ok
                    THEN /\ ast' = parsed.val
                         /\ pc' = "parsed"
                         /\ UNCHANGED err
                    ELSE /\ err' = parsed.err
                         /\ pc' = "failed"
                         /\ UNCHANGED ast
    /\ UNCHANGED <<src, toks2, out, loop>>

\* stringifyTemporal(ast)
Stringify ==
    /\ pc = "parsed"
    /\ out' = stringifyTemporal(ast)
    /\ pc' = "done"
    /\ UNCHANGED <<src, raw, toks, toks2, ast, err, loop>>

Next == ParseTemporal \/ Stringify

Spec == Init /\ [][Next]_vars

----------------------------------------------------------------------------
(* combineTimezoneOffsets on arbitrary token sequences, applied twice *)

\* a token array with the given (type, text) shapes at contiguous offsets
RECURSIVE Place(_, _)
Place(shapes, start) ==
    IF shapes = <<>> THEN <<>>
    ELSE LET h == Head(shapes)
             t == [type |-> h[1], value |-> h[2], start |-> start, end |-> start + Len(h[2])]
         IN <<t>> \o Place(Tail(shapes), t.end)

Plus == <<"Plus", <<"+">>>>
Dash == <<"Dash", <<"-">>>>
Colon == <<"Colon", <<":">>>>
Dot == <<"Dot", <<".">>>>
Num2 == <<"Number", <<"0", "8">>>>
Num3 == <<"Number", <<"1", "2", "3">>>>

\* what precedes the arbitrary part
FuseContexts ==
    {<<>>, <<Colon, Num2>>, <<Dot, Num3>>, <<<<"Z", <<"Z">>>>>>, <<<<"RBracket", <<"]">>>>>>,
     <<<<"T", <<"T">>>>>>, <<<<"Ident", <<"P">>>>>>, <<<<"Slash", <<"/">>>>>>,
     <<<<"Comma", <<",">>>>, Num3>>, <<Colon>>}

FuseTails == SeqsUpTo({Plus, Dash, Colon, Num2, Num3}, MaxToks)

\* token arrays the lexer produces for texts with a sign in them
FuseExamples ==
    {<<"1", "0", ":", "0", "0", "+", "0", "8", ":", "0", "0", ".", "5", "-", "0", "9", ":", "3", "0">>, <<"Z", "+", "0", "8", ":", "0", "0">>, <<"[", "x", "]", "+", "0", "8", ":", "0", "0">>, <<"1", "0", ":", "0", "0", ":", "0", "0", "+", "0", "8", ":", "0", "0">>, <<"+", "0", "8", ":", "0", "0">>, <<"1", "0", ":", "3", "0", ":", "4", "5", ",", "1", "2", "3", "+", "0", "8", ":", "0", "0">>,
     <<"T", "+", "0", "8", ":", "0", "0">>, <<"1", "0", ":", "0", "0", ":", "0", "0", "+", "0", "5", "3", "0">>, <<"1", "0", ":", "0", "0", "-", "0", "9">>, <<"1", "0", ":", "0", "0", "+", "1">>, <<"1", "0", ":", "0", "0", "+", "1", "2", "3", "4", "5">>, <<"1", "0", ":", "0", "0", "+", "1", "2", "3", ":", "4", "5", "6">>,
     <<"1", "0", ":", "0", "0", ":", "0", "0", ".", "9", "9", "9", "-", "0", "8", ":", "0", "0">>, <<"1", "0", ":", "0", "0", "+", "0", "8", ":", "0", "0", "+", "0", "9", ":", "0", "0">>, <<"1", "0", ":", "0", "0", "+", "0", "8", "+", "0", "9">>, <<"2", "0", "2", "5", "-", "0", "1", "-", "1", "2", "T", "1", "0", ":", "0", "0", ":", "0", "0", "-", "0", "5", ":", "3", "0", "[", "a", "/", "b", "]">>,
     <<"2", "0", "2", "5", "-", "0", "1", "-", "1", "2">>, <<"1", "0", ":", "0", "0", "+", "0", "8", ":">>, <<"1", "0", ":", "0", "0", "+", ":", "0", "0">>, <<"1", "0", ":", "0", "0", "+", "-", "0", "8", ":", "0", "0">>, <<"1", "0", ":", "0", "0", "+", "0", "5", "3", "0", ":", "1", "5">>}

FuseInputs ==
    {Place(c \o t, 0) : c \in FuseContexts, t \in FuseTails}
      \cup {lexTemporal(s).tokens : s \in FuseExamples}

InitFuse ==
    /\ pc = "tokens"
    /\ raw \in FuseInputs
    /\ src = <<>>
    /\ toks = <<>>
    /\ toks2 = <<>>
    /\ ast = NoAst
    /\ err = NoError
    /\ out = <<>>
    /\ loop = NoLoop

\* combineTimezoneOffsets(raw)
Combine ==
    /\ pc = "tokens"
    /\ toks' = combineTimezoneOffsets(raw)
    /\ pc' = "fused"
    /\ UNCHANGED <<src, raw, toks2, ast, err, out, loop>>

\* combineTimezoneOffsets(toks), a second pass over the result of the first
CombineAgain ==
    /\ pc = "fused"
    /\ toks2' = combineTimezoneOffsets(toks)
    /\ pc' = "refused"
    /\ UNCHANGED <<src, raw, toks, ast, err, out, loop>>

NextFuse == Combine \/ CombineAgain

SpecFuse == InitFuse /\ [][NextFuse]_vars

----------------------------------------------------------------------------
(* parseOffset on arbitrary text, followed by stringifyOffset *)

OffsetChars == {"0", "1", "5", "6", ":", "-"}

OffsetExamples ==
    {<<"+", "1", "5", ":", "0", "0">>, <<"-", "1", "5", ":", "0", "0">>, <<"+", "1", "4", ":", "0", "0">>, <<"-", "1", "2", ":", "0", "0">>, <<"+", "1", "4", ":", "5", "9">>, <<"+", "1", "4", ":", "6", "0">>, <<"+", "0", "5", "3", "0">>, <<"-", "0", "8", "0", "0">>,
     <<"+", "0", "9">>, <<"+", "1", "4", "6", "0">>, <<"+", "1", "5", "0", "0">>, <<"+", "1", "5">>, <<"+", "1", "4">>, <<"+", "0", "8", ":", "0", "0">>, <<"-", "0", "0", ":", "0", "0">>, <<"+", "0", "0", ":", "0", "0">>, <<"Z">>,
     <<"0", "8", ":", "0", "0">>, <<"+", "9", "9", ":", "9", "9">>, <<"+", " ", "9", ":", "0", "0">>, <<"+", "0", "8", ":", "0", "a">>}

OffsetInputs ==
    {<<c>> \o r : c \in {"+", "-", "1"}, r \in SeqsUpTo(OffsetChars, MaxOffLen)}
      \cup OffsetExamples \cup {<<>>}

InitOffset ==
    /\ pc = "offset"
    /\ src \in OffsetInputs
    /\ raw = <<>>
    /\ toks = <<>>
    /\ toks2 = <<>>
    /\ ast = NoAst
    /\ err = NoError
    /\ out = <<>>
    /\ loop = NoLoop

\* parseOffset(src)
ParseOffset ==
    /\ pc = "offset"
    /\ \E r \in {parseOffset(src, 0)} :
         IF r.ok
         THEN /\ ast' = r.val
              /\ pc' = "offsetParsed"
              /\ UNCHANGED err
         ELSE /\ err' = r.err
              /\ pc' = "failed"
              /\ UNCHANGED ast
    /\ UNCHANGED <<src, raw, toks, toks2, out, loop>>

\* stringifyOffset(ast)
StringifyOffset ==
    /\ pc = "offsetParsed"
    /\ out' = stringifyOffset(ast)
    /\ pc' = "offsetDone"
    /\ UNCHANGED <<src, raw, toks, toks2, ast, err, loop>>

NextOffset == ParseOffset \/ StringifyOffset

SpecOffset == InitOffset /\ [][NextOffset]_vars

----------------------------------------------------------------------------
(* Properties of parseTemporal and stringifyTemporal *)

\* a bracket group [..] whose content, without a leading '!', has no '=' and has a '/'
TzShapedGroup(g) ==
    LET content == SubSeq(g, 2, Len(g) - 1)
        body == IF content # <<>> /\ content[1] = "!" THEN Tail(content) ELSE content
    IN ~Includes(body, "=") /\ Includes(body, "/")

\* texts in the canonical form the round-trip property names: 4-digit year,
\* 2-digit month, day, hour, minute and second, 'Z' or sign HH:MM, '.' before
\* the fraction; bracket groups in any order, a duration fraction on any designator
CanonicalAsClaimed ==
    {d \o t \o o : d \in CanonDates, t \in CanonTimes, o \in CanonOffsets}
      \cup {d \o g : d \in GroupBases, g \in GroupLists(CanonGroups)}
      \cup NormalDurations
      \cup FractionalDurations
      \cup {a \o <<"/">> \o b : a \in CanonRangeSides, b \in CanonRangeSides}

\* the same with the arrangement fixed: a time-zone shaped group, if there is
\* one, comes first among the groups, and a duration is in normal form
CanonicalNormal ==
    {d \o t \o o : d \in CanonDates, t \in CanonTimes, o \in CanonOffsets}
      \cup {d \o Flatten(gs) : d \in GroupBases,
                              gs \in {x \in SeqsUpTo(CanonGroups, MaxGroups) :
                                         (\E k \in 1..Len(x) : TzShapedGroup(x[k]))
                                            => TzShapedGroup(x[1])}}
      \cup NormalDurations
      \cup {a \o <<"/">> \o b : a \in CanonRangeSides, b \in CanonRangeSides}

IndexOf(s, c) == CHOOSE k \in 1..Len(s) : s[k] = c /\ \A j \in 1..(k - 1) : s[j] # c

\* the text before the first bracket group
BeforeBrackets(s) == IF Includes(s, "[") THEN SubSeq(s, 1, IndexOf(s, "[") - 1) ELSE s

\* the offset as written in a date-time text: from the first 'Z' or '+', or the
\* first '-' after the 'T', up to the bracket groups; empty if there is none
WrittenOffset(s) ==
    LET head == BeforeBrackets(s)
        marks == {k \in 1..Len(head) :
                     \/ head[k] \in {"Z", "+"}
                     \/ head[k] = "-" /\ \E j \in 1..(k - 1) : head[j] = "T"}
    IN IF marks = {} THEN <<>>
       ELSE SubSeq(head, CHOOSE k \in marks : \A j \in marks : k <= j, Len(head))

\* C2: parseTemporal returns a UtcOffset exactly when the offset is written 'Z',
\* a NumericOffset with the written sign when it is written with a sign (also
\* for +00:00 and -00:00) and no offset when none is written; stringifyTemporal
\* writes NumericOffset('-', 0, 0) as '-00:00' and UtcOffset as 'Z'.
C2_ZNeverConflated ==
    (pc \in {"parsed", "done"} /\ ast.kind = "DateTime") =>
        LET w == WrittenOffset(src)
            isUtc == IsSome(ast.offset) /\ Val(ast.offset).kind = "UtcOffset"
            isNumeric == IsSome(ast.offset) /\ Val(ast.offset).kind = "NumericOffset"
        IN /\ isUtc <=> w = <<"Z">>
           /\ isNumeric <=> (w # <<>> /\ w[1] \in {"+", "-"})
           /\ isNumeric => Val(ast.offset).sign = w[1]
           /\ (pc = "done" /\ isUtc) => WrittenOffset(out) = <<"Z">>
           /\ (pc = "done" /\ isNumeric /\ Val(ast.offset).sign = "-"
                 /\ Val(ast.offset).hours = 0 /\ Val(ast.offset).minutes = 0)
                => WrittenOffset(out) = <<"-", "0", "0", ":", "0", "0">>

C2_Witness ==
    /\ pc = "done"
    /\ src = <<"2", "0", "2", "5", "-", "0", "1", "-", "1", "2", "T", "1", "0", ":", "3", "0", ":", "4", "5", "-", "0", "0", ":", "0", "0">>
    /\ Val(ast.offset).kind = "NumericOffset"
    /\ Val(ast.offset).sign = "-"
    /\ out = src


\* a duration text that is not a side of a range
DurationText(s) == Len(s) >= 1 /\ s[1] = "P" /\ ~Includes(s, "/")

DateDesignators == {"Y", "M", "W", "D"}
TimeDesignators == {"H", "M", "S"}

\* position k of s comes after a 'T'
InTimePart(s, k) == \E j \in 2..(k - 1) : s[j] = "T"

\* every letter after the 'P' is the 'T' marker or a designator of the section
\* (before or after the first 'T') it stands in
WellSectioned(s) ==
    \A k \in 2..Len(s) :
       (isAlpha(s[k]) /\ s[k] # "T") =>
          IF InTimePart(s, k) THEN s[k] \in TimeDesignators ELSE s[k] \in DateDesignators

\* C7: a duration text with a designator outside its section (Y, M, W, D before
\* the first 'T'; H, M, S after it, for the rest of the text) is refused with a
\* ParseError and no AST; in an accepted one 'M' before 'T' is months and after
\* 'T' minutes; 'PT1Y' and 'P1H' are ParseErrors.
C7_DurationSections ==
    (pc # "start" /\ DurationText(src)) =>
        LET body == BeforeBrackets(src) IN
        /\ ~WellSectioned(body) =>
              /\ pc = "failed"
              /\ ast = NoAst
              /\ raw # <<>> => err.kind = "ParseError"
        /\ pc \in {"parsed", "done"} =>
              /\ ast.kind = "Duration"
              /\ IsSome(ast.months) <=>
                    \E k \in 2..Len(body) : body[k] = "M" /\ ~InTimePart(body, k)
              /\ IsSome(ast.minutes) <=>
                    \E k \in 2..Len(body) : body[k] = "M" /\ InTimePart(body, k)
        /\ src = <<"P", "T", "1", "Y">> =>
              err = ParseError(<<"Invalid duration unit", "in time part">>, 4)
        /\ src = <<"P", "1", "H">> =>
              err = ParseError(<<"Invalid duration unit", "in date part">>, 3)

C7_Witness ==
    /\ pc = "failed"
    /\ src = <<"P", "T", "1", "H", "T", "1", "D">>
    /\ ast = NoAst
    /\ err = ParseError(<<"Invalid duration unit", "in time part">>, 7)

\* the tokens of a duration before its bracket groups
BodyEnd(ts) ==
    IF \E k \in 1..Len(ts) : ts[k].type = "LBracket"
    THEN (CHOOSE k \in 1..Len(ts) :
             ts[k].type = "LBracket" /\ \A j \in 1..(k - 1) : ts[j].type # "LBracket") - 1
    ELSE Len(ts)

\* the positions in ts of the designator letter, in the date or the time section
Written(ts, letter, inTime) ==
    {k \in 3..BodyEnd(ts) :
        /\ ts[k].type = "Ident"
        /\ ts[k].value = <<letter>>
        /\ inTime <=> \E j \in 1..(k - 1) : ts[j].type = "T"}

\* the Number token a designator at k is written with: the one before it, or
\* the one before the decimal point
NumberOf(ts, k) ==
    DigitsToNat(ts[IF ts[k - 2].type = "Dot" THEN k - 3 ELSE k - 1].value)

RECURSIVE SumOf(_, _)
SumOf(ts, ks) ==
    IF ks = {} THEN 0
    ELSE LET k == CHOOSE x \in ks : TRUE IN NumberOf(ts, k) + SumOf(ts, ks \ {k})

\* the field of a designator: absent if never written, else the sum
Expected(ts, letter, inTime) ==
    IF Written(ts, letter, inTime) = {} THEN None
    ELSE Some(SumOf(ts, Written(ts, letter, inTime)))

\* C8: in the Duration parseTemporal returns, each of years, months, weeks,
\* days, hours, minutes and seconds is the sum of the Number tokens written with
\* its designator in its section, and is absent exactly when the designator was
\* never written; 'P1Y2Y' gives years = 3.
C8_DurationAccumulation ==
    (pc \in {"parsed", "done"} /\ DurationText(src)) =>
        /\ ast.years = Expected(raw, "Y", FALSE)
        /\ ast.months = Expected(raw, "M", FALSE)
        /\ ast.weeks = Expected(raw, "W", FALSE)
        /\ ast.days = Expected(raw, "D", FALSE)
        /\ ast.hours = Expected(raw, "H", TRUE)
        /\ ast.minutes = Expected(raw, "M", TRUE)
        /\ ast.seconds = Expected(raw, "S", TRUE)
        /\ src = <<"P", "1", "Y", "2", "Y">> => ast.years = Some(3)

C8_Witness ==
    /\ pc = "parsed"
    /\ src = <<"P", "1", "Y", "2", "Y">>
    /\ ast.years = Some(3)
    /\ ast.months = None

\* s without its white space
NoSpace(s) == SelectSeq(s, LAMBDA c : ~isSpace(c))

\* the contents of the bracket groups of s, in order, white space left out
RECURSIVE GroupTexts(_)
GroupTexts(s) ==
    IF ~Includes(s, "[") THEN <<>>
    ELSE LET rest == SubSeq(s, IndexOf(s, "[") + 1, Len(s))
             close == IndexOf(rest, "]")
         IN <<NoSpace(SubSeq(rest, 1, close - 1))>>
              \o GroupTexts(SubSeq(rest, close + 1, Len(rest)))

Marked(g) == g # <<>> /\ g[1] = "!"
Unmarked(g) == IF Marked(g) THEN Tail(g) ELSE g

\* no '=' and a '/' (or a leading "Etc/") in the content after the '!' mark
ZoneShaped(g) ==
    /\ ~Includes(Unmarked(g), "=")
    /\ Includes(Unmarked(g), "/") \/ StartsWith(Unmarked(g), <<"E", "t", "c", "/">>)

AnnotationFor(g) == [kind |-> "Annotation", raw |-> g, critical |-> Marked(g)]

----------------------------------------------------------------------------
(* Properties of parseOffset and stringifyOffset *)

\* n in 0..99 written with two digits
TwoDigits(n) == <<Digits[(n \div 10) + 1], Digits[(n % 10) + 1]>>

\* C3: stringifyOffset of a NumericOffset is the sign, the hours in two digits,
\* ':' and the minutes in two digits, whatever text the offset was parsed from:
\* '+0530' is written '+05:30' and '+09' is written '+09:00'.
C3_OffsetFromFields ==
    pc = "offsetDone" =>
        /\ out = <<ast.sign>> \o TwoDigits(ast.hours) \o <<":">> \o TwoDigits(ast.minutes)
        /\ src = <<"+", "0", "5", "3", "0">> => out = <<"+", "0", "5", ":", "3", "0">>
        /\ src = <<"+", "0", "9">> => out = <<"+", "0", "9", ":", "0", "0">>

C3_Witness ==
    /\ pc = "offsetDone"
    /\ src = <<"+", "0", "5", "3", "0">>
    /\ ast.raw = <<"+", "0", "5", "3", "0">>
    /\ out = <<"+", "0", "5", ":", "3", "0">>


\* the text after the sign is HH:MM, HHMM or HH in decimal digits (of any count
\* around a colon)
OffsetDigits(s) ==
    /\ Len(s) >= 2
    /\ s[1] \in {"+", "-"}
    /\ LET rest == Tail(s)
           colons == {k \in 1..Len(rest) : rest[k] = ":"}
       IN /\ \A k \in 1..Len(rest) : k \notin colons => isDigit(rest[k])
          /\ \/ colons = {} /\ Len(rest) \in {2, 4}
             \/ /\ Cardinality(colons) = 1
                /\ rest[1] # ":"
                /\ rest[Len(rest)] # ":"

\* the hours and the minutes such a text is written with
WrittenHours(s) ==
    LET rest == Tail(s) IN
    IF Includes(rest, ":") THEN DigitsToNat(SubSeq(rest, 1, IndexOf(rest, ":") - 1))
    ELSE DigitsToNat(SubSeq(rest, 1, 2))
WrittenMinutes(s) ==
    LET rest == Tail(s) IN
    IF Includes(rest, ":") THEN DigitsToNat(SubSeq(rest, IndexOf(rest, ":") + 1, Len(rest)))
    ELSE IF Len(rest) = 4 THEN DigitsToNat(SubSeq(rest, 3, 4))
    ELSE 0

HoursRangeError == ParseError(<<"Offset hours must be 0-14">>, 0)
MinutesRangeError == ParseError(<<"Offset minutes must be 0-59">>, 0)

\* what holds of parseOffset on either reading of the range property
OffsetRangeCommon ==
    /\ pc \in {"offsetParsed", "offsetDone"} =>
          /\ ast.kind = "NumericOffset"
          /\ 0 <= ast.hours /\ ast.hours <= 14
          /\ 0 <= ast.minutes /\ ast.minutes <= 59
    /\ (OffsetDigits(src) /\ WrittenHours(src) > 14) =>
          pc = "failed" /\ err = HoursRangeError
    /\ src \in {<<"+", "1", "5", ":", "0", "0">>, <<"-", "1", "5", ":", "0", "0">>} => pc = "failed" /\ err = HoursRangeError
    /\ src \in {<<"+", "1", "4", ":", "0", "0">>, <<"-", "1", "2", ":", "0", "0">>} =>
          /\ pc \in {"offsetParsed", "offsetDone"}
          /\ ast.sign = src[1]
          /\ ast.hours = WrittenHours(src)
          /\ ast.minutes = 0

\* C10 as stated: every offset returned has hours in 0..14 and minutes in
\* 0..59, hours above 14 fail with the hours-range error, and minutes above 59
\* fail with the minutes-range error whatever the hours are.
C10_RangeAsClaimed ==
    pc # "offset" =>
        /\ OffsetRangeCommon
        /\ (OffsetDigits(src) /\ WrittenMinutes(src) > 59) =>
              pc = "failed" /\ err = MinutesRangeError

\* C10 amended: every offset returned has hours in 0..14 and minutes in 0..59;
\* hours above 14 fail with the hours-range error, and minutes above 59 fail
\* with the minutes-range error when the hours are at most 14 (the hours are
\* checked first); '+15:00' and '-15:00' fail with the hours-range error,
\* '+14:00' and '-12:00' are accepted.
C10_OffsetRange ==
    pc # "offset" =>
        /\ OffsetRangeCommon
        /\ (OffsetDigits(src) /\ WrittenHours(src) <= 14 /\ WrittenMinutes(src) > 59) =>
              pc = "failed" /\ err = MinutesRangeError

C10_Witness ==
    /\ pc = "failed"
    /\ src = <<"-", "1", "5", ":", "0", "0">>
    /\ err = HoursRangeError

----------------------------------------------------------------------------
(* Properties of combineTimezoneOffsets *)

\* the tokens lexTemporal returns for a text it accepts
Lexed(s) == lexTemporal(s).tokens

\* C4: a second pass of combineTimezoneOffsets over the result of the first
\* returns that result unchanged, for every token sequence.
C4_FuserIdempotent == pc = "refused" => toks2 = toks

C4_Witness ==
    /\ pc = "refused"
    /\ raw = Lexed(<<"1", "0", ":", "0", "0", "+", "0", "8", ":", "0", "0", ".", "5", "-", "0", "9", ":", "3", "0">>)
    /\ Len(toks) = Len(raw) - 6
    /\ toks2 = toks

\* the tokens before position k of ts end a time component: a Number that
\* follows a Colon or a Dot
AfterTimeComponent(ts, k) ==
    k >= 3 /\ ts[k - 1].type = "Number" /\ ts[k - 2].type \in {"Colon", "Dot"}

\* C5: in the result of combineTimezoneOffsets no TZOffset token comes first or
\* directly after a Z or a closing bracket, and one that directly follows a
\* Number has a Colon or a Dot before that Number; 'Z+08:00', '[x]+08:00' and a
\* leading '+08:00' stay unfused, and '10:00:00+08:00' gets one TZOffset token.
C5_FuserContext ==
    pc \in {"fused", "refused"} =>
        /\ \A k \in 1..Len(toks) :
              toks[k].type = "TZOffset" =>
                 /\ k >= 2
                 /\ toks[k - 1].type \notin {"Z", "RBracket"}
                 /\ toks[k - 1].type = "Number" => AfterTimeComponent(toks, k)
        /\ raw \in {Lexed(<<"Z", "+", "0", "8", ":", "0", "0">>), Lexed(<<"[", "x", "]", "+", "0", "8", ":", "0", "0">>), Lexed(<<"+", "0", "8", ":", "0", "0">>)} => toks = raw
        /\ raw = Lexed(<<"1", "0", ":", "0", "0", ":", "0", "0", "+", "0", "8", ":", "0", "0">>) =>
              /\ Len(toks) = 7
              /\ toks[6].type = "TZOffset"
              /\ toks[6].value = <<"+", "0", "8", ":", "0", "0">>
              /\ \A k \in 1..5 : toks[k] = raw[k]

C5_Witness ==
    /\ pc = "fused"
    /\ raw = Lexed(<<"1", "0", ":", "0", "0", ":", "0", "0", "+", "0", "8", ":", "0", "0">>)
    /\ toks[6].type = "TZOffset"

\* the token sequence with every TZOffset token replaced by the tokens it was
\* made from
RECURSIVE Expand(_)
Expand(ts) ==
    IF ts = <<>> THEN <<>>
    ELSE (IF Head(ts).type = "TZOffset" THEN Head(ts).tokens ELSE <<Head(ts)>>)
           \o Expand(Tail(ts))

\* the tokens after position k of ts are Number Colon Number
ColonShapeAfter(ts, k) ==
    TypeAt(ts, k) = "Number" /\ TypeAt(ts, k + 1) = "Colon" /\ TypeAt(ts, k + 2) = "Number"

\* the token after position k of ts is a Number of 2 or 4 characters
DigitsShapeAfter(ts, k) == TypeAt(ts, k) = "Number" /\ Len(ts[k + 1].value) \in {2, 4}

\* C6: every TZOffset token is made of a sign, Number, Colon, Number (digits
\* of any count), or of a sign and one Number of length 2 or 4 that is not
\* followed by Colon Number; a sign after a time component is left as it is only
\* when neither shape follows it; all other tokens are emitted unchanged and in
\* order.
C6_FuserShapes ==
    pc \in {"fused", "refused"} =>
        /\ Expand(toks) = raw
        /\ \A k \in 1..Len(toks) :
              toks[k].type = "TZOffset" =>
                 LET parts == toks[k].tokens IN
                 /\ parts[1].type \in {"Plus", "Dash"}
                 /\ toks[k].start = parts[1].start
                 /\ toks[k].end = parts[Len(parts)].end
                 /\ \/ /\ Len(parts) = 4
                       /\ ColonShapeAfter(parts, 1)
                       /\ toks[k].value = parts[1].value \o parts[2].value \o <<":">>
                                            \o parts[4].value
                    \/ /\ Len(parts) = 2
                       /\ DigitsShapeAfter(parts, 1)
                       /\ toks[k].value = parts[1].value \o parts[2].value
                       /\ ~(TypeAt(toks, k) = "Colon" /\ TypeAt(toks, k + 1) = "Number")
        /\ \A k \in 1..Len(toks) :
              (toks[k].type \in {"Plus", "Dash"} /\ AfterTimeComponent(toks, k)) =>
                 ~ColonShapeAfter(toks, k) /\ ~DigitsShapeAfter(toks, k)

C6_Witness ==
    /\ pc = "fused"
    /\ \E k \in 1..Len(toks) :
          /\ toks[k].type = "TZOffset"
          /\ toks[k].value = <<"+", "1", "2", "3", ":", "1", "2", "3">>
    /\ \E k \in 1..Len(toks) : toks[k].type = "Number" /\ toks[k].value = <<"0", "8">>

----------------------------------------------------------------------------
(* Shapes parseOffset accepts *)

\* a sign followed by DD:DD, DDDD or DD, D a decimal digit
ThreeShapes(s) ==
    /\ Len(s) \in {3, 5, 6}
    /\ s[1] \in {"+", "-"}
    /\ \A k \in 2..Len(s) : (Len(s) = 6 /\ k = 4) \/ isDigit(s[k])
    /\ Len(s) = 6 => s[4] = ":"

\* C11: parseOffset accepts only a sign followed by HH:MM, HHMM or HH in two
\* digit fields; every other text is refused with a ParseError and gives no
\* offset.
C11_OffsetShapes ==
    pc # "offset" =>
        /\ pc \in {"offsetParsed", "offsetDone"} => ThreeShapes(src)
        /\ ~ThreeShapes(src) => pc = "failed" /\ err.kind = "ParseError" /\ ast = NoAst

----------------------------------------------------------------------------
(* Ranges and the end of input *)

\* the offsets of the '/' characters of s that are outside bracket groups
TopSlashes(s) ==
    {k \in 1..Len(s) :
        /\ s[k] = "/"
        /\ Cardinality({j \in 1..(k - 1) : s[j] = "["})
             = Cardinality({j \in 1..(k - 1) : s[j] = "]"})}

\* parseTemporal of a text on its own
ParseAlone(s) ==
    LET lexed == lexTemporal(s)
    IN IF ~lexed.ok THEN lexed ELSE parserParseTemporal(combineTimezoneOffsets(lexed.tokens))

\* a side of a range: null if nothing is written, else what the text parses to
SideOf(s) == IF NoSpace(s) = <<>> THEN None ELSE Some(ParseAlone(s).val)

\* a side that is not written, or a single DateTime or Duration
SideAccepted(s) ==
    \/ NoSpace(s) = <<>>
    \/ ParseAlone(s).ok /\ ParseAlone(s).val.kind \in {"DateTime", "Duration"}

\* C12: parseTemporal returns a Range exactly for a text with one '/' outside
\* brackets and, on each side of it, nothing or a DateTime or a Duration with
\* nothing after the second side; a side that is not written is null and a
\* written side is what it parses to on its own; '/' gives null on both sides.
C12_RangeProduction ==
    (pc # "start" /\ raw # <<>>) =>
        LET isRange == pc \in {"parsed", "done"} /\ ast.kind = "Range"
            cut == CHOOSE k \in TopSlashes(src) : TRUE
            left == SubSeq(src, 1, cut - 1)
            right == SubSeq(src, cut + 1, Len(src))
        IN /\ isRange <=> /\ Cardinality(TopSlashes(src)) = 1
                          /\ SideAccepted(left)
                          /\ SideAccepted(right)
           /\ isRange => ast = [kind |-> "Range", start |-> SideOf(left), end |-> SideOf(right)]
           /\ src = <<"/">> => ast = [kind |-> "Range", start |-> None, end |-> None]

C12_Witness ==
    /\ pc = "parsed"
    /\ src = <<"2", "0", "2", "5", "-", "0", "1", "-", "0", "1", "/", "P", "1", "Y">>
    /\ ast.kind = "Range"
    /\ Val(ast.start).kind = "DateTime"
    /\ Val(ast.end).kind = "Duration"

\* the error of Parser.eat when the end of input is required at cursor i
EofExpected(ts, i) == ParseError(<<"Expected", "EOF", "but got", peek(ts, i, 0).type>>, i)

\* C13: an AST is returned only with the cursor past the end-of-input token;
\* when a token other than end of input follows a complete DateTime or Duration
\* that is not followed by '/', or the second side of a range, a ParseError with
\* the index of that token is raised and no AST is returned.
C13_EndOfInputRequired ==
    (pc # "start" /\ raw # <<>>) =>
        LET first == IF at(toks, 0, "Slash") THEN Ok(0, None) ELSE parseValueOrNull(toks, 0)
            ranged == first.ok /\ at(toks, first.i, "Slash")
            second == parseValueOrNull(toks, first.i + 1)
        IN /\ pc \in {"parsed", "done"} => parserParseTemporal(toks).i = Len(toks)
           /\ (first.ok /\ first.val # None /\ ~ranged /\ ~eof(toks, first.i)) =>
                 pc = "failed" /\ ast = NoAst /\ err = EofExpected(toks, first.i)
           /\ (ranged /\ second.ok /\ ~eof(toks, second.i)) =>
                 pc = "failed" /\ ast = NoAst /\ err = EofExpected(toks, second.i)

C13_Witness ==
    /\ pc = "failed"
    /\ src = <<"2", "0", "2", "5", "-", "0", "1", "-", "1", "2", "X">>
    /\ ast = NoAst
    /\ err = ParseError(<<"Expected", "EOF", "but got", "Ident">>, 5)

----------------------------------------------------------------------------
(* lexTemporal on arbitrary text *)

MaxLexLen == 4

LexChars == {"1", "D", "m", "T", "Z", "[", "]", " ", "#"}

\* characters written inside a bracket group: digits, letters, signs, marks
BracketSample == {"0", "8", "x", "+", ":", "T"}

\* a bracket group of arbitrary content after a time or at the start, alone
\* or followed by digits
BracketInputs ==
    {p \o <<"[">> \o c \o <<"]">> \o t :
        p \in {<<>>, <<"1", "0", ":", "0", "0">>}, c \in SeqsUpTo(BracketSample, MaxLexLen), t \in {<<>>, <<"0", "8">>}}

LexInputs == SeqsUpTo(LexChars, MaxLexLen) \cup TemporalInputs \cup BracketInputs

InitLex ==
    /\ pc = "text"
    /\ src \in LexInputs
    /\ raw = <<>>
    /\ toks = <<>>
    /\ toks2 = <<>>
    /\ ast = NoAst
    /\ err = NoError
    /\ out = <<>>
    /\ loop = NoLoop

\* lexTemporal(src)
Lex ==
    /\ pc = "text"
    /\ \E lexed \in {lexTemporal(src)} :
         IF lexed.ok
         THEN /\ raw' = lexed.tokens
              /\ pc' = "lexed"
              /\ UNCHANGED err
         ELSE /\ err' = lexed.err
              /\ pc' = "failed"
              /\ UNCHANGED raw
    /\ UNCHANGED <<src, toks, toks2, ast, out, loop>>

NextLex == Lex

SpecLex == InitLex /\ [][NextLex]_vars

\* C14: the tokens of an accepted text are in increasing, non-overlapping
\* offset order, each with the source text from start to end as its value; what
\* no token covers is white space; the last token, and only it, is the end of
\* input at the length of the text.
C14_TokenOrder ==
    pc = "lexed" =>
        LET n == Len(raw) IN
        /\ n >= 1
        /\ raw[n] = [type |-> "EOF", value |-> <<>>, start |-> Len(src), end |-> Len(src)]
        /\ \A k \in 1..(n - 1) :
              /\ raw[k].type # "EOF"
              /\ 0 <= raw[k].start
              /\ raw[k].start < raw[k].end
              /\ raw[k].end <= raw[k + 1].start
              /\ raw[k].value = SubSeq(src, raw[k].start + 1, raw[k].end)
        /\ \A j \in 1..Len(src) :
              (\A k \in 1..(n - 1) : ~(raw[k].start < j /\ j <= raw[k].end)) => isSpace(src[j])

C14_Witness ==
    /\ pc = "lexed"
    /\ src = <<"2", "0", "2", "5", " ", "-", "0", "1">>
    /\ Len(raw) = 4
    /\ raw[2] = [type |-> "Dash", value |-> <<"-">>, start |-> 5, end |-> 6]

\* position k of s is inside a bracket group: after a '[' with no ']' since
InsideBrackets(s, k) ==
    \E j \in 1..(k - 1) : s[j] = "[" /\ \A m \in (j + 1)..(k - 1) : s[m] # "]"

\* the characters taken in default mode and inside brackets
DefaultChars ==
    DigitSet \cup LowerSet \cup UpperSet \cup {" ", "[", "-", ":", ".", "+", "/", ",", "=", "_"}
BracketChars ==
    DigitSet \cup LowerSet \cup UpperSet
      \cup {" ", "]", "=", "_", ":", "-", "+", "/", ".", ",", "!"}

\* the positions of the characters that are not allowed where they stand
InvalidAt(s) ==
    {k \in 1..Len(s) :
        IF InsideBrackets(s, k) THEN s[k] \notin BracketChars ELSE s[k] \notin DefaultChars}

\* a '[' with no ']' after it
Unclosed(s) == \E j \in 1..Len(s) : s[j] = "[" /\ \A m \in (j + 1)..Len(s) : s[m] # "]"

\* C15: lexTemporal returns the tokens of the whole text or raises a LexError
\* and returns none; the position of the LexError is the offset of the first
\* character not allowed where it stands (in default mode or inside brackets);
\* a bracket that is never closed raises a LexError too, and every other text
\* is tokenized.
C15_LexAllOrNothing ==
    pc # "text" =>
        /\ pc = "failed" => raw = <<>> /\ err.kind = "LexError"
        /\ pc = "lexed" => err = NoError /\ raw # <<>>
        /\ InvalidAt(src) # {} =>
              /\ pc = "failed"
              /\ err.position = (CHOOSE k \in InvalidAt(src) : \A j \in InvalidAt(src) : k <= j) - 1
        /\ (InvalidAt(src) = {} /\ Unclosed(src)) => pc = "failed" /\ err.position = Len(src)
        /\ (InvalidAt(src) = {} /\ ~Unclosed(src)) => pc = "lexed"

C15_Witness ==
    /\ pc = "failed"
    /\ src = <<"2", "0", "2", "5", "-", "0", "1", "-", "1", "2", "[", "x", "#", "]">>
    /\ raw = <<>>
    /\ err.kind = "LexError"
    /\ err.position = 12

\* the letters that lexIdent joins into one Ident
IdentLetter(c) == isAlpha(c) /\ c \notin {"T", "Z"}

\* C16: outside brackets every 'T' and every 'Z' is a token of its own of the
\* kind T or Z, no Ident has a 'T' or a 'Z' in it, and every maximal run of
\* other letters is one Ident; 'DT' is Ident 'D' and then the marker 'T'.
C16_TZIsolation ==
    pc = "lexed" =>
        /\ \A k \in 1..Len(src) :
              (src[k] \in {"T", "Z"} /\ ~InsideBrackets(src, k)) =>
                 \E t \in 1..Len(raw) :
                    raw[t] = [type |-> src[k], value |-> <<src[k]>>, start |-> k - 1, end |-> k]
        /\ \A t \in 1..Len(raw) :
              (raw[t].type = "Ident" /\ ~InsideBrackets(src, raw[t].start + 1)) =>
                 /\ \A j \in 1..Len(raw[t].value) : IdentLetter(raw[t].value[j])
                 /\ raw[t].start > 0 => ~IdentLetter(src[raw[t].start])
                 /\ raw[t].end < Len(src) => ~IdentLetter(src[raw[t].end + 1])
        /\ \A k \in 1..Len(src) :
              (IdentLetter(src[k]) /\ ~InsideBrackets(src, k)) =>
                 \E t \in 1..Len(raw) :
                    raw[t].type = "Ident" /\ raw[t].start < k /\ k <= raw[t].end
        /\ src = <<"D", "T">> =>
              /\ Len(raw) = 3
              /\ raw[1] = [type |-> "Ident", value |-> <<"D">>, start |-> 0, end |-> 1]
              /\ raw[2] = [type |-> "T", value |-> <<"T">>, start |-> 1, end |-> 2]

C16_Witness ==
    /\ pc = "lexed"
    /\ src = <<"D", "T">>
    /\ raw[1].type = "Ident"
    /\ raw[2].type = "T"

----------------------------------------------------------------------------
(* Years before year 1 *)

\* C17: parseTemporal accepts a date whose year is written with a leading '-'
\* and returns the negative year ('-0044-03-15' is year -44, month 3, day 15;
\* '0000-01-01' is year 0); stringifyDate writes a negative year as '-' and its
\* magnitude in at least four digits, so '-0044-03-15' is written back unchanged.
C17_BCYearRoundTrip ==
    /\ (pc # "start" /\ src = <<"0", "0", "0", "0", "-", "0", "1", "-", "0", "1">>) =>
          pc \in {"parsed", "done"} /\ ast.date.year = 0
    /\ (pc # "start" /\ src = <<"-", "0", "0", "4", "4", "-", "0", "3", "-", "1", "5">>) =>
          /\ pc \in {"parsed", "done"}
          /\ ast.date = DateOf(0 - 44, Some(3), Some(15))
          /\ stringifyDate(ast.date) = <<"-", "0", "0", "4", "4", "-", "0", "3", "-", "1", "5">>
          /\ pc = "done" => out = src

----------------------------------------------------------------------------
(* Decimal comma *)

\* C18: a ',' between the seconds and the fraction is accepted like a '.', in
\* a time of day and in the seconds of a duration, the fraction is kept as
\* written and the text is written back with '.': 'T10:30:45,123' has the
\* fraction '123' and 'PT1,5<<" ", "h", "a", "s", " ", "1", " ", "s", "e", "c", "o", "n", "d", " ", "a", "n", "d", " ", "t", "h", "e", " ", "f", "r", "a", "c", "t", "i", "o", "n", " ">>5'.
C18_CommaFraction ==
    /\ (pc # "start" /\ src = <<"2", "0", "2", "5", "-", "0", "1", "-", "1", "2", "T", "1", "0", ":", "3", "0", ":", "4", "5", ",", "1", "2", "3">>) =>
          /\ pc \in {"parsed", "done"}
          /\ Val(ast.time).second = Some(45)
          /\ Val(ast.time).fraction = Some(<<"1", "2", "3">>)
          /\ pc = "done" => out = <<"2", "0", "2", "5", "-", "0", "1", "-", "1", "2", "T", "1", "0", ":", "3", "0", ":", "4", "5", ".", "1", "2", "3">>
    /\ (pc # "start" /\ src = <<"P", "T", "1", ",", "5", "S">>) =>
          /\ pc \in {"parsed", "done"}
          /\ ast.seconds = Some(1)
          /\ ast.secondsFraction = Some(<<"5">>)
          /\ pc = "done" => out = <<"P", "T", "1", ".", "5", "S">>

----------------------------------------------------------------------------
(* What parseTemporal returns or throws *)

----------------------------------------------------------------------------
(* stringifyDuration on arbitrary Duration values *)

FieldValues == {None, Some(0), Some(12)}

DurationAsts ==
    {DurationOf([years |-> y, months |-> mo, weeks |-> w, days |-> d, hours |-> h,
                 minutes |-> mi, seconds |-> s, secondsFraction |-> f], <<"P">>, a) :
        y \in FieldValues, mo \in FieldValues, w \in FieldValues, d \in FieldValues,
        h \in FieldValues, mi \in FieldValues, s \in FieldValues,
        f \in {None, Some(<<>>), Some(<<"5">>)},
        a \in {<<>>, <<[kind |-> "Annotation", raw |-> <<"u", "-", "c", "a", "=", "g", "r", "e", "g", "o", "r", "y">>, critical |-> FALSE]>>}}

InitDuration ==
    /\ pc = "duration"
    /\ ast \in DurationAsts
    /\ src = <<>>
    /\ raw = <<>>
    /\ toks = <<>>
    /\ toks2 = <<>>
    /\ err = NoError
    /\ out = <<>>
    /\ loop = NoLoop

\* stringifyDuration(ast)
StringifyDuration ==
    /\ pc = "duration"
    /\ out' = stringifyDuration(ast)
    /\ pc' = "durationDone"
    /\ UNCHANGED <<src, raw, toks, toks2, ast, err, loop>>

NextDuration == StringifyDuration

SpecDuration == InitDuration /\ [][NextDuration]_vars

\* the letters of s before its bracket groups
Letters(s) == SelectSeq(BeforeBrackets(s), LAMBDA c : isAlpha(c))

\* the designator of a field if the field is present
LetterIf(o, letter) == IF IsSome(o) THEN <<letter>> ELSE <<>>

\* C20: stringifyDuration writes every present field, zero ones too, and no
\* absent one, in the order Y, M, W, D, then 'T' and H, M, S, with the 'T'
\* exactly when hours, minutes or seconds are present; the values written are
\* those of the fields; a Duration with no fields is written 'P'.
C20_DurationFieldByField ==
    pc = "durationDone" =>
        LET hasTime == IsSome(ast.hours) \/ IsSome(ast.minutes) \/ IsSome(ast.seconds)
            back == ParseAlone(out)
        IN /\ Letters(out) =
                 <<"P">> \o LetterIf(ast.years, "Y") \o LetterIf(ast.months, "M")
                   \o LetterIf(ast.weeks, "W") \o LetterIf(ast.days, "D")
                   \o (IF hasTime THEN <<"T">> ELSE <<>>)
                   \o LetterIf(ast.hours, "H") \o LetterIf(ast.minutes, "M")
                   \o LetterIf(ast.seconds, "S")
           /\ back.ok
           /\ back.val.years = ast.years
           /\ back.val.months = ast.months
           /\ back.val.weeks = ast.weeks
           /\ back.val.days = ast.days
           /\ back.val.hours = ast.hours
           /\ back.val.minutes = ast.minutes
           /\ back.val.seconds = ast.seconds
           /\ Letters(out) = <<"P">> => BeforeBrackets(out) = <<"P">>

C20_Witness ==
    /\ pc = "durationDone"
    /\ ast.years = Some(0)
    /\ ast.minutes = Some(0)
    /\ ast.seconds = None
    /\ ast.annotations = <<>>
    /\ out = <<"P", "0", "Y", "T", "0", "M">>

----------------------------------------------------------------------------
(* stringifyTime on arbitrary Time values *)

TimeAsts ==
    {TimeOf(h, m, s, f) :
        h \in {0, 9, 23}, m \in {0, 5, 59},
        s \in {None, Some(0), Some(3), Some(45)},
        f \in {None, Some(<<>>), Some(<<"5">>), Some(<<"1", "2", "3">>)}}

InitTime ==
    /\ pc = "time"
    /\ ast \in TimeAsts
    /\ src = <<>>
    /\ raw = <<>>
    /\ toks = <<>>
    /\ toks2 = <<>>
    /\ err = NoError
    /\ out = <<>>
    /\ loop = NoLoop

\* stringifyTime(ast)
StringifyTime ==
    /\ pc = "time"
    /\ out' = stringifyTime(ast)
    /\ pc' = "timeDone"
    /\ UNCHANGED <<src, raw, toks, toks2, ast, err, loop>>

NextTime == StringifyTime

SpecTime == InitTime /\ [][NextTime]_vars

\* C21: stringifyTime writes the hour and the minute as HH:MM with two digits
\* each, a colon and the two-digit second only when a second is present, and a
\* dot with the fraction only when the fraction is present and not empty; the
\* text written never ends in a dot.
C21_TimeText ==
    pc = "timeDone" =>
        /\ out = TwoDigits(ast.hour) \o <<":">> \o TwoDigits(ast.minute)
                   \o (IF IsSome(ast.second)
                       THEN <<":">> \o TwoDigits(Val(ast.second))
                            \o (IF IsSome(ast.fraction) /\ Val(ast.fraction) # <<>>
                                THEN <<".">> \o Val(ast.fraction) ELSE <<>>)
                       ELSE <<>>)
        /\ out[Len(out)] # "."

\* the texts of the tokens ts one after the other
RECURSIVE JoinValues(_)
JoinValues(ts) == IF ts = <<>> THEN <<>> ELSE Head(ts).value \o JoinValues(Tail(ts))

\* fused is original with some runs of 2 or 4 tokens replaced by one TZOffset
\* token each, that token holding the run, spanning it and carrying its text
RECURSIVE Reassembles(_, _)
Reassembles(fused, original) ==
    IF fused = <<>> THEN original = <<>>
    ELSE IF original = <<>> THEN FALSE
    ELSE LET f == Head(fused) IN
         IF f.type = "TZOffset" /\ Head(original).type # "TZOffset"
         THEN \E n \in {2, 4} :
                 /\ n <= Len(original)
                 /\ f.tokens = SubSeq(original, 1, n)
                 /\ f.start = original[1].start
                 /\ f.end = original[n].end
                 /\ f.value = JoinValues(SubSeq(original, 1, n))
                 /\ Reassembles(Tail(fused), SubSeq(original, n + 1, Len(original)))
         ELSE f = Head(original) /\ Reassembles(Tail(fused), Tail(original))

\* C22: the output of combineTimezoneOffsets is its input with runs of tokens
\* replaced by TZOffset tokens and nothing else changed: putting the
\* constituent tokens back gives the input, in order; every TZOffset spans
\* from the start of its sign to the end of its last token and its text is the
\* texts of its tokens one after the other.
C22_FuserPreservesContent ==
    /\ pc \in {"fused", "refused"} => Reassembles(toks, raw)
    /\ pc = "refused" => Reassembles(toks2, toks)

C22_Witness ==
    /\ pc = "fused"
    /\ raw = Lexed(<<"1", "0", ":", "0", "0", "+", "0", "8", ":", "0", "0", ".", "5", "-", "0", "9", ":", "3", "0">>)
    /\ Len(toks) = 8
    /\ toks[7].type = "TZOffset"
    /\ toks[7].value = <<"-", "0", "9", ":", "3", "0">>
    /\ toks[7].start = 13
    /\ toks[7].end = 19
    /\ toks[5].type = "Dot"

----------------------------------------------------------------------------
(* parseTimeString: the standalone time-of-day parser *)

LowerSeq == <<"a", "b", "c", "d", "e", "f", "g", "h", "i", "j", "k", "l", "m",
              "n", "o", "p", "q", "r", "s", "t", "u", "v", "w", "x", "y", "z">>
UpperSeq == <<"A", "B", "C", "D", "E", "F", "G", "H", "I", "J", "K", "L", "M",
              "N", "O", "P", "Q", "R", "S", "T", "U", "V", "W", "X", "Y", "Z">>

\* String.prototype.toUpperCase over the alphabets of the model
toUpperCase(s) ==
    [k \in 1..Len(s) |->
        IF s[k] \in LowerSet THEN UpperSeq[CHOOSE j \in 1..26 : LowerSeq[j] = s[k]] ELSE s[k]]

\* the eat of parseTimeString, with its own message
timeEat(ts, i, type) ==
    IF peek(ts, i, 0).type # type
    THEN Fail(ParseError(<<"Invalid time format", "Expected format HH:MM or H:MM AM/PM">>, i))
    ELSE Ok(i + 1, peek(ts, i, 0))

\* the cursor after tryEat(type)
timeTryEat(ts, i, type) == IF at(ts, i, type) THEN i + 1 ELSE i

\* if (tryEat(Dot) || tryEat(Comma)) fraction = eat(Number).value
timeFraction(ts, i) ==
    IF at(ts, i, "Dot") \/ at(ts, i, "Comma")
    THEN Bind(timeEat(ts, i + 1, "Number"), LAMBDA fracTok :
         IF ~fracTok.ok THEN fracTok ELSE Ok(fracTok.i, Some(fracTok.val.value)))
    ELSE Ok(i, None)

\* the fields read so far, with the cursor
TimeFields(i, hour, minute, second, fraction) ==
    Ok(i, [hour |-> hour, minute |-> minute, second |-> second, fraction |-> fraction])

\* ISO 8601 basic format: hhmm or hhmmss in one Number token, then an optional
\* fraction
timeBasic(ts, i, timeStr) ==
    Bind(toInt(Slice(timeStr, 0, 2), "hour", i), LAMBDA hour :
    IF ~hour.ok THEN hour ELSE
    Bind(toInt(Slice(timeStr, 2, 4), "minute", i), LAMBDA minute :
    IF ~minute.ok THEN minute ELSE
    Bind(IF Len(timeStr) = 6 THEN toInt(Slice(timeStr, 4, 6), "second", i)
         ELSE [ok |-> TRUE, n |-> 0], LAMBDA second :
    IF ~second.ok THEN second ELSE
    IF Len(timeStr) = 6 /\ (second.n < 0 \/ second.n > 59)
    THEN Fail(ParseError(<<"Invalid second", "Seconds must be between 00-59">>, i)) ELSE
    IF minute.n < 0 \/ minute.n > 59
    THEN Fail(ParseError(<<"Invalid minute", "Minutes must be between 00-59">>, i)) ELSE
    Bind(timeFraction(ts, i), LAMBDA frac :
    IF ~frac.ok THEN frac ELSE
    TimeFields(frac.i, hour.n, minute.n,
               IF Len(timeStr) = 6 THEN Some(second.n) ELSE None, frac.val)))))

\* the optional ':' seconds and fraction of the extended format
timeSeconds(ts, i, hour, minute) ==
    IF ~at(ts, i, "Colon") THEN TimeFields(i, hour, minute, None, None) ELSE
    Bind(timeEat(ts, i + 1, "Number"), LAMBDA secondTok :
    IF ~secondTok.ok THEN secondTok ELSE
    Bind(toInt(secondTok.val.value, "second", secondTok.i), LAMBDA second :
    IF ~second.ok THEN second ELSE
    IF second.n < 0 \/ second.n > 59
    THEN Fail(ParseError(<<"Invalid second", "Seconds must be between 00-59">>, secondTok.i))
    ELSE
    Bind(timeFraction(ts, secondTok.i), LAMBDA frac :
    IF ~frac.ok THEN frac ELSE
    TimeFields(frac.i, hour, minute, Some(second.n), frac.val))))

\* extended format (with colons) or bare hour
timeExtended(ts, i, hourText) ==
    Bind(toInt(hourText, "hour", i), LAMBDA hour :
    IF ~hour.ok THEN hour ELSE
    IF ~at(ts, i, "Colon") THEN TimeFields(i, hour.n, 0, None, None) ELSE
    Bind(timeEat(ts, i + 1, "Number"), LAMBDA minuteTok :
    IF ~minuteTok.ok THEN minuteTok ELSE
    Bind(toInt(minuteTok.val.value, "minute", minuteTok.i), LAMBDA minute :
    IF ~minute.ok THEN minute ELSE
    IF Len(minuteTok.val.value) # 2
    THEN Fail(ParseError(<<"Invalid time format", "Minutes must be 2 digits">>, minuteTok.i))
    ELSE
    IF minute.n < 0 \/ minute.n > 59
    THEN Fail(ParseError(<<"Invalid minute", "Minutes must be between 00-59">>, minuteTok.i))
    ELSE timeSeconds(ts, minuteTok.i, hour.n, minute.n))))

\* the optional AM/PM marker: A, P, AM, PM in either case, or a.m. / p.m.
timeMarker(ts, i) ==
    IF ~at(ts, i, "Ident") THEN Ok(i, None) ELSE
    Bind(toUpperCase(peek(ts, i, 0).value), LAMBDA ident :
    IF ident \notin {<<"A">>, <<"P">>, <<"A", "M">>, <<"P", "M">>}
    THEN Fail(ParseError(<<"Invalid time format", "unexpected", peek(ts, i, 0).value>>, i + 1))
    ELSE
    Bind(timeTryEat(ts, i + 1, "Dot"), LAMBDA j :
    IF ~at(ts, j, "Ident") THEN Ok(j, Some(ident[1])) ELSE
    IF toUpperCase(peek(ts, j, 0).value) # <<"M">>
    THEN Fail(ParseError(<<"Invalid time format", "unexpected", peek(ts, j, 0).value>>, j + 1))
    ELSE Ok(timeTryEat(ts, j + 1, "Dot"), Some(ident[1]))))

\* a conversion in which every PM hour has 12 added
convertHour_pmAlwaysAdds(hour, ampm, i) ==
    IF IsSome(ampm)
    THEN IF hour < 1 \/ hour > 12
         THEN Fail(ParseError(<<"Invalid hour for 12-hour format">>, i))
         ELSE IF Val(ampm) = "P"
              THEN Ok(i, hour + 12)
              ELSE Ok(i, IF hour = 12 THEN 0 ELSE hour)
    ELSE IF hour < 0 \/ hour > 23
         THEN Fail(ParseError(<<"Invalid hour for 24-hour format">>, i))
         ELSE Ok(i, hour)

\* AM/PM conversion and validation of the hour
convertHour(hour, ampm, i) ==
    IF IsSome(ampm)
    THEN IF hour < 1 \/ hour > 12
         THEN Fail(ParseError(<<"Invalid hour for 12-hour format">>, i))
         ELSE IF Val(ampm) = "P"
              THEN Ok(i, IF hour # 12 THEN hour + 12 ELSE hour)
              ELSE Ok(i, IF hour = 12 THEN 0 ELSE hour)
    ELSE IF hour < 0 \/ hour > 23
         THEN Fail(ParseError(<<"Invalid hour for 24-hour format">>, i))
         ELSE Ok(i, hour)

parseTimeString(input) ==
    Bind(Trim(input), LAMBDA trimmed :
    IF trimmed = <<>> THEN Fail(ParseError(<<"Empty time string">>, 0)) ELSE
    Bind(lexTemporal(trimmed), LAMBDA lexed :
    IF ~lexed.ok THEN Fail(lexed.err) ELSE
    Bind(timeEat(lexed.tokens, 0, "Number"), LAMBDA hourTok :
    IF ~hourTok.ok THEN hourTok ELSE
    Bind(IF ~at(lexed.tokens, 1, "Colon") /\ Len(hourTok.val.value) \in {4, 6}
         THEN timeBasic(lexed.tokens, 1, hourTok.val.value)
         ELSE timeExtended(lexed.tokens, 1, hourTok.val.value), LAMBDA fields :
    IF ~fields.ok THEN fields ELSE
    Bind(timeMarker(lexed.tokens, fields.i), LAMBDA marker :
    IF ~marker.ok THEN marker ELSE
    Bind(timeEat(lexed.tokens, marker.i, "EOF"), LAMBDA end :
    IF ~end.ok THEN end ELSE
    Bind(convertHour(fields.val.hour, marker.val, end.i), LAMBDA hour :
    IF ~hour.ok THEN hour ELSE
    Ok(end.i, TimeOf(hour.val, fields.val.minute, fields.val.second,
                     fields.val.fraction)))))))))

----------------------------------------------------------------------------
(* parseTimeString on time-of-day texts *)

HourTexts == {<<"0">>, <<"1">>, <<"7">>, <<"9">>, <<"1", "1">>, <<"1", "2">>, <<"1", "3">>, <<"2", "3">>, <<"2", "4">>, <<"0", "9">>, <<"0", "1", "2">>}

TimeTails ==
    {<<>>, <<":", "0", "0">>, <<":", "0", "7">>, <<":", "5", "9">>, <<":", "6", "0">>, <<":", "7">>, <<":", "0", "7", ":", "4", "5">>, <<":", "0", "7", ":", "6", "0">>, <<":", "0", "7", ":", "4", "5", ".", "1", "2", "3">>,
     <<":", "0", "7", ":", "4", "5", ",", "5">>, <<":", "0", "7", ".", "5">>, <<".", "5">>, <<":", "0", "7", ":", "4", "5", ".">>, <<":">>}

BasicTexts ==
    {<<"1", "4", "3", "0">>, <<"0", "9", "0", "0">>, <<"1", "4", "3", "0", "4", "5">>, <<"1", "2", "6", "0">>, <<"2", "4", "3", "0">>, <<"1", "4", "3", "0", "6", "0">>, <<"0", "0", "0", "0">>, <<"1", "2", "0", "0">>, <<"1", "2", "3">>,
     <<"1", "2", "3", "4", "5">>}

BasicTails == {<<>>, <<".", "5">>, <<",", "1", "2", "3">>, <<":", "1", "5">>, <<".">>}

MarkerTexts ==
    {<<>>, <<" ", "A", "M">>, <<"P", "M">>, <<" ", "p", "m">>, <<" ", "a", ".", "m", ".">>, <<" ", "p", ".", "m">>, <<"A">>, <<" ", "X", "M">>, <<" ", "a", "m", " ", "x">>, <<" ", "P", ".", "x">>, <<" ", "P", "M", " ", "1">>}

TimeStringInputs ==
    {h \o t \o m : h \in HourTexts, t \in TimeTails, m \in MarkerTexts}
      \cup {b \o t \o m : b \in BasicTexts, t \in BasicTails, m \in MarkerTexts}
      \cup {<<>>, <<" ", " ">>, <<" ", "9", ":", "0", "7", " ", "A", "M", " ">>, <<"T", "1", "0">>, <<"9", ":", "0", "7", "#">>, <<"A", "M">>, <<"[", "9", ":", "0", "7", "]">>, <<"9", ":", "0", "7", " ", "[", "x">>}

InitTimeString ==
    /\ pc = "timeString"
    /\ src \in TimeStringInputs
    /\ raw = <<>>
    /\ toks = <<>>
    /\ toks2 = <<>>
    /\ ast = NoAst
    /\ err = NoError
    /\ out = <<>>
    /\ loop = NoLoop

\* parseTimeString(src): the TimeAst returned, or the error thrown
ParseTimeString ==
    /\ pc = "timeString"
    /\ \E parsed \in {parseTimeString(src)} :
          IF parsed.ok
          THEN /\ ast' = parsed.val
               /\ pc' = "timeParsed"
               /\ UNCHANGED err
          ELSE /\ err' = parsed.err
               /\ pc' = "failed"
               /\ UNCHANGED ast
    /\ UNCHANGED <<src, raw, toks, toks2, out, loop>>

NextTimeString == ParseTimeString

SpecTimeString == InitTimeString /\ [][NextTimeString]_vars

----------------------------------------------------------------------------
(* Properties of parseTimeString *)

\* the tokens of the trimmed text, when it has any
TimeTokens(s) == IF lexTemporal(Trim(s)).ok THEN lexTemporal(Trim(s)).tokens ELSE <<>>

\* the text starts with digits
StartsWithNumber(s) == TimeTokens(s) # <<>> /\ TimeTokens(s)[1].type = "Number"

\* the digits are read as hhmm or hhmmss
IsBasic(s) ==
    /\ StartsWithNumber(s)
    /\ Len(TimeTokens(s)[1].value) \in {4, 6}
    /\ TimeTokens(s)[2].type # "Colon"

\* the hour as written
WrittenHour(s) ==
    IF IsBasic(s) THEN DigitsToNat(SubSeq(TimeTokens(s)[1].value, 1, 2))
    ELSE DigitsToNat(TimeTokens(s)[1].value)

\* the AM/PM markers written in s, as "A" or "P"
MarkersOf(s) ==
    {toUpperCase(TimeTokens(s)[k].value)[1] :
        k \in {j \in 1..Len(TimeTokens(s)) :
                 /\ TimeTokens(s)[j].type = "Ident"
                 /\ toUpperCase(TimeTokens(s)[j].value)
                      \in {<<"A">>, <<"P">>, <<"A", "M">>, <<"P", "M">>}}}

\* C23: with an AM/PM marker the written hour must be in 1..12, else a
\* ParseError is raised; 12 AM is hour 0, 1-11 AM are unchanged, 12 PM is hour
\* 12 and 1-11 PM have 12 added; without a marker the written hour must be in
\* 0..23 and is returned as written; every Time returned has its hour in
\* 0..23, its minute in 0..59 and, when present, its second in 0..59.
C23_TwelveHourConversion ==
    pc # "timeString" =>
        /\ pc = "timeParsed" =>
              /\ ast.kind = "Time"
              /\ ast.hour \in 0..23
              /\ ast.minute \in 0..59
              /\ IsSome(ast.second) => Val(ast.second) \in 0..59
              /\ StartsWithNumber(src)
              /\ MarkersOf(src) = {"A"} =>
                    /\ WrittenHour(src) \in 1..12
                    /\ ast.hour = (IF WrittenHour(src) = 12 THEN 0 ELSE WrittenHour(src))
              /\ MarkersOf(src) = {"P"} =>
                    /\ WrittenHour(src) \in 1..12
                    /\ ast.hour = (IF WrittenHour(src) = 12 THEN 12 ELSE WrittenHour(src) + 12)
              /\ MarkersOf(src) = {} =>
                    /\ WrittenHour(src) \in 0..23
                    /\ ast.hour = WrittenHour(src)
              /\ MarkersOf(src) \in {{}, {"A"}, {"P"}}
        /\ (/\ StartsWithNumber(src)
            /\ \/ MarkersOf(src) # {} /\ WrittenHour(src) \notin 1..12
               \/ MarkersOf(src) = {} /\ WrittenHour(src) \notin 0..23)
           => pc = "failed" /\ err.kind = "ParseError" /\ ast = NoAst

C23_Witness ==
    /\ pc = "timeParsed"
    /\ src = <<"1", "2", ":", "0", "7", " ", "a", ".", "m", ".">>
    /\ ast = TimeOf(0, 7, None, None)

----------------------------------------------------------------------------
(* Fractions in durations *)

\* s without the dot and digits written before a designator other than S
RECURSIVE DropFractions(_)
DropFractions(s) ==
    IF s = <<>> THEN <<>>
    ELSE IF /\ s[1] = "."
            /\ NumberEnd(s, 1) > 1
            /\ NumberEnd(s, 1) < Len(s)
            /\ s[NumberEnd(s, 1) + 1] \in {"Y", "M", "W", "D", "H"}
         THEN DropFractions(SubSeq(s, NumberEnd(s, 1) + 1, Len(s)))
         ELSE <<s[1]>> \o DropFractions(Tail(s))

\* the positions in ts of the S designators written with a fraction
FractionalSeconds(ts) == {k \in Written(ts, "S", TRUE) : k >= 5 /\ ts[k - 2].type = "Dot"}

\* C24: in a duration only a fraction written on the seconds designator S is
\* recorded, as the seconds fraction; a fraction on another designator raises
\* no error and changes no field: the text is accepted exactly when it is
\* accepted with that fraction left out, and with the same years, months,
\* weeks, days, hours, minutes, seconds and seconds fraction, each designator
\* having the integer part alone as its value.
C24_FractionOnlyOnSeconds ==
    (pc # "start" /\ DurationText(src) /\ ~Includes(src, "[")) =>
        /\ pc \in {"parsed", "done"} =>
              /\ ast.kind = "Duration"
              /\ ast.secondsFraction =
                    (IF FractionalSeconds(toks) = {} THEN None
                     ELSE Some(toks[(CHOOSE k \in FractionalSeconds(toks) :
                                        \A j \in FractionalSeconds(toks) : j <= k) - 1].value))
              /\ ast.hours = Expected(toks, "H", TRUE)
              /\ ast.years = Expected(toks, "Y", FALSE)
        /\ DropFractions(src) # src =>
              LET plain == ParseAlone(DropFractions(src)) IN
              /\ pc \in {"parsed", "done"} <=> plain.ok
              /\ pc \in {"parsed", "done"} =>
                    /\ ast.years = plain.val.years
                    /\ ast.months = plain.val.months
                    /\ ast.weeks = plain.val.weeks
                    /\ ast.days = plain.val.days
                    /\ ast.hours = plain.val.hours
                    /\ ast.minutes = plain.val.minutes
                    /\ ast.seconds = plain.val.seconds
                    /\ ast.secondsFraction = plain.val.secondsFraction
        /\ src = <<"P", "1", ".", "5", "Y">> => pc # "failed" /\ ast.years = Some(1) /\ ast.secondsFraction = None

C24_Witness ==
    /\ pc = "done"
    /\ src = <<"P", "T", "1", ".", "5", "H">>
    /\ ast.hours = Some(1)
    /\ ast.seconds = None
    /\ ast.secondsFraction = None
    /\ out = <<"P", "T", "1", "H">>

----------------------------------------------------------------------------
(* Tokens inside brackets *)

\* the single-character tokens of bracket mode
BracketMarks ==
    {<<"=", "Equals">>, <<"_", "Underscore">>, <<":", "Colon">>, <<"-", "Dash">>,
     <<"+", "Plus">>, <<"/", "Slash">>, <<".", "Dot">>, <<",", "Comma">>,
     <<"!", "Exclamation">>}

\* token t of the text s lies between a '[' and its ']'
TokenInBrackets(s, t) == t.type \notin {"RBracket", "EOF"} /\ InsideBrackets(s, t.start + 1)

\* C25: between '[' and its ']' white space is skipped and every token is
\* either one of the nine single-character tokens or a word, a word being an
\* Ident when it is letters only and a BracketText otherwise; no Number, T or Z
\* token is emitted there, and no TZOffset of the fused tokens starts or has a
\* part there.
C25_BracketTokens ==
    pc = "lexed" =>
        /\ \A k \in 1..Len(raw) :
              TokenInBrackets(src, raw[k]) =>
                 /\ raw[k].type \notin {"Number", "T", "Z", "LBracket"}
                 /\ \A j \in 1..Len(raw[k].value) : ~isSpace(raw[k].value[j])
                 /\ \/ /\ Len(raw[k].value) = 1
                       /\ <<raw[k].value[1], raw[k].type>> \in BracketMarks
                    \/ /\ raw[k].type \in {"Ident", "BracketText"}
                       /\ isAlpha(raw[k].value[1]) \/ isDigit(raw[k].value[1])
                       /\ \A j \in 1..Len(raw[k].value) : isBracketWordChar(raw[k].value[j])
                       /\ ~isBracketWordChar(src[raw[k].end + 1])
                       /\ raw[k].type = "Ident" <=>
                             \A j \in 1..Len(raw[k].value) : isAlpha(raw[k].value[j])
        /\ \A k \in 1..Len(src) :
              (InsideBrackets(src, k) /\ ~isSpace(src[k]) /\ src[k] # "]") =>
                 \E t \in 1..Len(raw) :
                    TokenInBrackets(src, raw[t]) /\ raw[t].start < k /\ k <= raw[t].end
        /\ \A k \in 1..Len(combineTimezoneOffsets(raw)) :
              combineTimezoneOffsets(raw)[k].type = "TZOffset" =>
                 \A j \in 1..Len(combineTimezoneOffsets(raw)[k].tokens) :
                    ~InsideBrackets(src, combineTimezoneOffsets(raw)[k].tokens[j].start + 1)

C25_Witness ==
    /\ pc = "lexed"
    /\ src = <<"1", "0", ":", "0", "0", "[", "+", "8", ":", "T", "]">>
    /\ Len(raw) = 10
    /\ raw[5].type = "Plus"
    /\ raw[6] = [type |-> "BracketText", value |-> <<"8">>, start |-> 7, end |-> 8]
    /\ raw[7].type = "Colon"
    /\ raw[8] = [type |-> "Ident", value |-> <<"T">>, start |-> 9, end |-> 10]

----------------------------------------------------------------------------
(* Where a sign is fused *)

\* C26: every TZOffset in the result of combineTimezoneOffsets directly
\* follows a Number that directly follows a Colon or a Dot; so none is first,
\* and none follows a T, an Ident, a Slash, a Comma, another TZOffset or a
\* Number that has a Comma or anything else than a Colon or a Dot before it;
\* the tokens of '10:30:45,123+08:00' and of 'T+08:00' come out unchanged.
C26_FusedOnlyAfterTimeNumber ==
    pc \in {"fused", "refused"} =>
        /\ \A k \in 1..Len(toks) :
              toks[k].type = "TZOffset" =>
                 /\ k >= 3
                 /\ toks[k - 1].type = "Number"
                 /\ toks[k - 2].type \in {"Colon", "Dot"}
        /\ \A k \in 1..Len(raw) :
              (/\ raw[k].type \in {"Plus", "Dash"}
               /\ \/ k = 1
                  \/ raw[k - 1].type \in {"T", "Ident", "Slash", "Comma", "Z", "RBracket", "Colon",
                                          "Dot", "Plus", "Dash"}
                  \/ k = 2
                  \/ raw[k - 1].type = "Number" /\ raw[k - 2].type \notin {"Colon", "Dot"})
              => \E j \in 1..Len(toks) : toks[j] = raw[k]
        /\ raw \in {Lexed(<<"1", "0", ":", "3", "0", ":", "4", "5", ",", "1", "2", "3", "+", "0", "8", ":", "0", "0">>), Lexed(<<"T", "+", "0", "8", ":", "0", "0">>)} => toks = raw

C26_Witness ==
    /\ pc = "fused"
    /\ raw = Lexed(<<"1", "0", ":", "3", "0", ":", "4", "5", ",", "1", "2", "3", "+", "0", "8", ":", "0", "0">>)
    /\ toks = raw
    /\ toks[8].type = "Plus"
    /\ toks[6].type = "Comma"

----------------------------------------------------------------------------
(* Offsets and times *)

\* the DateTime values of an AST: the value itself or the sides of a range
DateTimesOf(a) ==
    IF a.kind = "DateTime" THEN {a}
    ELSE IF a.kind = "Range"
         THEN {Val(x) : x \in {y \in {a.start, a.end} : IsSome(y) /\ Val(y).kind = "DateTime"}}
         ELSE {}

\* C27: a DateTime returned by parseTemporal has a NumericOffset only if it has
\* a time; a full date directly followed by a numeric offset is refused with a
\* ParseError ('2025-01-07+08:00'), while a date directly followed by Z is
\* accepted with the offset UtcOffset and no time ('2025-01-07Z').
C27_NumericOffsetNeedsTime ==
    pc # "start" =>
        /\ pc \in {"parsed", "done"} =>
              \A dt \in DateTimesOf(ast) :
                 (IsSome(dt.offset) /\ Val(dt.offset).kind = "NumericOffset") => IsSome(dt.time)
        /\ src \in {d \o o : d \in {x \in CanonDates \cup {<<"2", "0", "2", "5", "-", "0", "1", "-", "0", "7">>} : Len(x) = 10},
                             o \in (CanonOffsets \cup OtherOffsets) \ {<<>>, <<"Z">>, <<"z">>,
                                                                        <<"Z", "+", "0", "8", ":", "0", "0">>}} =>
              pc = "failed" /\ err.kind = "ParseError" /\ ast = NoAst
        /\ src \in {d \o <<"Z">> : d \in CanonDates \cup {<<"2", "0", "2", "5", "-", "0", "1", "-", "0", "7">>}} =>
              /\ pc \in {"parsed", "done"}
              /\ ast.kind = "DateTime"
              /\ ast.time = None
              /\ ast.offset = Some([kind |-> "UtcOffset"])

C27_Witness ==
    /\ pc = "failed"
    /\ src = <<"2", "0", "2", "5", "-", "0", "1", "-", "0", "7", "+", "0", "8", ":", "0", "0">>
    /\ \A k \in 1..Len(toks) : toks[k].type # "TZOffset"
    /\ err = ParseError(<<"Expected", "EOF", "but got", "Plus">>, 5)

----------------------------------------------------------------------------
(* parseTemporal and stringifyTemporal on texts with very long digit runs *)

LargeNumberInputs ==
    {<<"P", "1", "0", "0", "0", "0", "0", "0", "0", "0", "0", "0", "0", "0", "0", "0", "0", "0", "0", "0", "0", "0", "0", "Y">>, <<"P", "T", "1", "0", "0", "0", "0", "0", "0", "0", "0", "0", "0", "0", "0", "0", "0", "0", "0", "0", "0", "0", "0", "0", "S">>,
     <<"P", "1", "0", "0", "0", "0", "0", "0", "0", "0", "0", "0", "0", "0", "0", "0", "0", "0", "0", "0", "0", "0", "0", "Y", "1", "Y">>, <<"1", "0", "0", "0", "0", "0", "0", "0", "0", "0", "0", "0", "0", "0", "0", "0", "0", "0", "0", "0", "0", "0">>,
     <<"1", "0", "0", "0", "0", "0", "0", "0", "0", "0", "0", "0", "0", "0", "0", "0", "0", "0", "0", "0", "0", "0", "-", "0", "1", "-", "1", "2">>, <<"2", "0", "2", "5", "-", "0", "1", "-", "1", "2", "T", "1", "0", "0", "0", "0", "0", "0", "0", "0", "0", "0", "0", "0", "0", "0", "0", "0", "0", "0", "0", "0", "0", ":", "3", "0">>,
     <<"P", "0", "0", "0", "1", "0", "0", "0", "0", "0", "0", "0", "0", "0", "0", "0", "0", "0", "0", "0", "0", "0", "0", "0", "0", "0", "D">>}

InitNormalize ==
    /\ pc = "start"
    /\ src \in TemporalInputs \cup LargeNumberInputs
    /\ raw = <<>>
    /\ toks = <<>>
    /\ toks2 = <<>>
    /\ ast = NoAst
    /\ err = NoError
    /\ out = <<>>
    /\ loop = NoLoop

SpecNormalize == InitNormalize /\ [][Next]_vars

\* C28: the text written for an accepted input is itself accepted by
\* parseTemporal, and writing what it parses to gives the same text again.
C28_NormalizationIdempotent ==
    pc = "done" =>
        /\ ParseAlone(out).ok
        /\ stringifyTemporal(ParseAlone(out).val) = out

----------------------------------------------------------------------------
(* Fractions in parseTimeString *)

\* C29: every Time returned by parseTimeString that has a fraction has a
\* second; a text with a fraction and no seconds, in the basic or in the
\* extended format, does not give a Time with a fraction and no second.
C29_FractionNeedsSecond ==
    pc # "timeString" =>
        /\ pc = "timeParsed" => (IsSome(ast.fraction) => IsSome(ast.second))
        /\ src \in {<<"1", "4", "3", "0", ".", "5">>, <<"1", "3", ":", "0", "7", ".", "5">>} =>
              ~(pc = "timeParsed" /\ IsSome(ast.fraction) /\ ast.second = None)

----------------------------------------------------------------------------
(* parseTemporal run one loop iteration at a time *)

Stepped(i, tokens, inBracket) ==
    [ok |-> TRUE, i |-> i, tokens |-> tokens, inBracket |-> inBracket]

\* one iteration of the main loop of lexTemporal at offset i < Len(s); an
\* opening bracket hands the cursor to lexBracketContent
lexStep(s, i, tokens) ==
    LET ch == s[i + 1] IN
    IF isSpace(ch) THEN Stepped(i + 1, tokens, FALSE)
    ELSE IF ch = "["
         THEN Stepped(i + 1, Append(tokens, Tok("LBracket", s, i, i + 1)), TRUE)
    ELSE IF isDigit(ch)
         THEN LET r == lexNumber(s, i) IN Stepped(r.i, Append(tokens, r.tok), FALSE)
    ELSE IF isAlpha(ch)
         THEN LET r == lexIdent(s, i) IN Stepped(r.i, Append(tokens, r.tok), FALSE)
    ELSE IF DefaultPunct(ch) # "none"
         THEN Stepped(i + 1, Append(tokens, Tok(DefaultPunct(ch), s, i, i + 1)), FALSE)
    ELSE [ok |-> FALSE, err |-> LexError(<<"Unexpected character">>, i)]

\* one iteration of the loop of lexBracketContent at offset i; the closing
\* bracket returns to the main loop, which emits RBracket and steps over it
bracketStep(s, i, tokens) ==
    IF i >= Len(s)
    THEN [ok |-> FALSE, err |-> LexError(<<"Unterminated bracket annotation">>, Len(s))]
    ELSE LET ch == s[i + 1] IN
         IF ch = "]"
         THEN Stepped(i + 1, Append(tokens, Tok("RBracket", s, i, i + 1)), FALSE)
         ELSE IF isSpace(ch) THEN Stepped(i + 1, tokens, TRUE)
         ELSE IF BracketPunct(ch) # "none"
              THEN Stepped(i + 1, Append(tokens, Tok(BracketPunct(ch), s, i, i + 1)), TRUE)
         ELSE IF isBracketWordChar(ch)
              THEN LET e == WordEnd(s, i + 1)
                       text == Slice(s, i, e)
                       type == IF \A k \in 1..Len(text) : isAlpha(text[k])
                               THEN "Ident" ELSE "BracketText"
                   IN Stepped(e, Append(tokens, Tok(type, s, i, e)), TRUE)
         ELSE [ok |-> FALSE, err |-> LexError(<<"Unexpected character inside brackets">>, i)]

\* the locals of the designator loop of parseDuration
DurationLocals(i, inTime, dur, rawParts, done) ==
    [ok |-> TRUE, i |-> i, inTime |-> inTime, dur |-> dur, rawParts |-> rawParts,
     done |-> done]

\* one iteration of the designator loop whose T designator leaves the cursor
\* where it is
durationStep_tStalls(ts, i, inTime, dur, rawParts) ==
    IF eof(ts, i) \/ at(ts, i, "Slash") \/ at(ts, i, "LBracket")
    THEN DurationLocals(i, inTime, dur, rawParts, TRUE)
    ELSE IF at(ts, i, "T")
    THEN DurationLocals(i, TRUE, dur, rawParts \o <<"T">>, FALSE)
    ELSE IF ~at(ts, i, "Number")
    THEN DurationLocals(i, inTime, dur, rawParts, TRUE)
    ELSE
    Bind(peek(ts, i, 0), LAMBDA numTok :
    Bind(durationFraction(ts, i + 1), LAMBDA frac :
    IF ~frac.ok THEN frac ELSE
    Bind(eat(ts, frac.i, "Ident"), LAMBDA unitTok :
    IF ~unitTok.ok THEN unitTok ELSE
    Bind(toInt(numTok.value, "duration number", unitTok.i), LAMBDA n :
    IF ~n.ok THEN n ELSE
    Bind(durationUnit(dur, inTime, unitTok.val.value, n.n, frac.val.fraction, unitTok.i),
         LAMBDA d :
    IF ~d.ok THEN d ELSE
    DurationLocals(unitTok.i, inTime, d.val,
                   rawParts \o numTok.value \o frac.val.raw \o unitTok.val.value,
                   FALSE))))))

\* one iteration of the designator loop of parseDuration at cursor i; done
\* when the loop condition fails or the loop breaks
durationStep(ts, i, inTime, dur, rawParts) ==
    IF eof(ts, i) \/ at(ts, i, "Slash") \/ at(ts, i, "LBracket")
    THEN DurationLocals(i, inTime, dur, rawParts, TRUE)
    ELSE IF at(ts, i, "T")
    THEN DurationLocals(i + 1, TRUE, dur, rawParts \o <<"T">>, FALSE)
    ELSE IF ~at(ts, i, "Number")
    THEN DurationLocals(i, inTime, dur, rawParts, TRUE)
    ELSE
    Bind(peek(ts, i, 0), LAMBDA numTok :
    Bind(durationFraction(ts, i + 1), LAMBDA frac :
    IF ~frac.ok THEN frac ELSE
    Bind(eat(ts, frac.i, "Ident"), LAMBDA unitTok :
    IF ~unitTok.ok THEN unitTok ELSE
    Bind(toInt(numTok.value, "duration number", unitTok.i), LAMBDA n :
    IF ~n.ok THEN n ELSE
    Bind(durationUnit(dur, inTime, unitTok.val.value, n.n, frac.val.fraction, unitTok.i),
         LAMBDA d :
    IF ~d.ok THEN d ELSE
    DurationLocals(unitTok.i, inTime, d.val,
                   rawParts \o numTok.value \o frac.val.raw \o unitTok.val.value,
                   FALSE))))))

\* what Parser.parseTemporal does once the designator loop of its first
\* value, a duration, is left at cursor i: annotations, range, end of input
durationRest(ts, i, dur, rawParts) ==
    Bind(durationGroups(ts, i, <<>>), LAMBDA groups :
    IF ~groups.ok THEN groups ELSE
    Bind(DurationOf(dur, rawParts, groups.val), LAMBDA first :
    IF at(ts, groups.i, "Slash") THEN rangeEnd(ts, groups.i + 1, Some(first)) ELSE
    Bind(eat(ts, groups.i, "EOF"), LAMBDA e :
    IF ~e.ok THEN e ELSE Ok(e.i, first))))

\* characters of the short texts run step by step
StepChars == {"1", "P", "Y", "[", "]", " "}

StepInputs ==
    SeqsUpTo(StepChars, MaxLexLen) \cup OddInputs
      \cup {<<"P", "1", "Y", "-">>, <<"P", "1", "Y", "[", "]">>, <<"P", "T", "1", ".", "5", "S", "[", "x", "]">>, <<"P", "1", "Y", "/", "P", "2", "M">>, <<"P", "1", "Y", "[", "x">>, <<"P", "1", "Y", "2", "M", "3", "D", "T", "4", "H", "5", "M", "6", "S">>,
            <<"P", "1", "W">>, <<"P", "T", "1", ",", "5", "S">>, <<"P", "1", ".", "5", "Y">>, <<"P", "1", "Y", "T">>, <<"P", "T", "1", "H", "/", "2", "0", "2", "5", "-", "0", "1", "-", "1", "2">>,
            <<"2", "0", "2", "5", "-", "0", "1", "-", "1", "2", "[", "]">>, <<"2", "0", "2", "5", "-", "0", "1", "-", "1", "2", "T", "1", "0", ":", "0", "0", "[", " ", "x", " ", "]", "[", "y", "=", "z", "]">>, <<"1", "0", ":", "0", "0", "+", "0", "8", ":", "0", "0", "/">>}

\* Parser.parseTemporal over every token sequence that lexTemporal and
\* combineTimezoneOffsets give for those texts, computed once
ParsedOf ==
    [ts \in {combineTimezoneOffsets(lexTemporal(s).tokens) :
                s \in {x \in StepInputs : lexTemporal(x).ok}}
       |-> parserParseTemporal(ts)]

\* the designator loop over each of those token sequences that starts a
\* duration: the cursor and the locals it is left with
BodyOf(ts) == durationLoop(ts, 1, FALSE, EmptyDur, <<"P">>)

\* durationRest at every exit of the designator loop, computed once
DurationRestOf ==
    [body \in {<<ts, BodyOf(ts)>> :
                 ts \in {x \in DOMAIN ParsedOf :
                           /\ at(x, 0, "Ident") /\ peek(x, 0, 0).value = <<"P">>
                           /\ BodyOf(x).ok}}
       |-> durationRest(body[1], body[2].i, body[2].val.dur, body[2].val.raw)]

InitSteps ==
    /\ pc = "lexing"
    /\ src \in StepInputs
    /\ raw = <<>>
    /\ toks = <<>>
    /\ toks2 = <<>>
    /\ ast = NoAst
    /\ err = NoError
    /\ out = <<>>
    /\ loop = NoLoop

\* the main loop of lexTemporal: one iteration, or the EOF token at its exit
LexStep ==
    /\ pc = "lexing"
    /\ IF loop.i >= Len(src)
       THEN /\ raw' = Append(raw, Tok("EOF", src, Len(src), Len(src)))
            /\ pc' = "fusing"
            /\ loop' = NoLoop
            /\ UNCHANGED err
       ELSE \E r \in {lexStep(src, loop.i, raw)} :
              IF r.ok
              THEN /\ raw' = r.tokens
                   /\ loop' = [i |-> r.i]
                   /\ pc' = IF r.inBracket THEN "lexingBracket" ELSE "lexing"
                   /\ UNCHANGED err
              ELSE /\ err' = r.err
                   /\ pc' = "failed"
                   /\ UNCHANGED <<raw, loop>>
    /\ UNCHANGED <<src, toks, toks2, ast, out>>

\* the loop of lexBracketContent: one iteration
BracketStep ==
    /\ pc = "lexingBracket"
    /\ \E r \in {bracketStep(src, loop.i, raw)} :
         IF r.ok
         THEN /\ raw' = r.tokens
              /\ loop' = [i |-> r.i]
              /\ pc' = IF r.inBracket THEN "lexingBracket" ELSE "lexing"
              /\ UNCHANGED err
         ELSE /\ err' = r.err
              /\ pc' = "failed"
              /\ UNCHANGED <<raw, loop>>
    /\ UNCHANGED <<src, toks, toks2, ast, out>>

\* the main loop of combineTimezoneOffsets: one iteration, or its exit
FuseStep ==
    /\ pc = "fusing"
    /\ IF loop.i < Len(raw)
       THEN \E r \in {fuseStep(raw, loop.i, toks)} :
              /\ toks' = r.out
              /\ loop' = [i |-> r.i]
              /\ pc' = "fusing"
       ELSE /\ pc' = "parsing"
            /\ loop' = NoLoop
            /\ UNCHANGED toks
    /\ UNCHANGED <<src, raw, toks2, ast, err, out>>

\* Parser.parseTemporal up to the designator loop of a first value that is a
\* duration; the whole of it for any other first token
ParseStart ==
    /\ pc = "parsing"
    /\ IF at(toks, 0, "Ident") /\ peek(toks, 0, 0).value = <<"P">>
       THEN /\ pc' = "durationBody"
            /\ loop' = DurationLocals(1, FALSE, EmptyDur, <<"P">>, FALSE)
            /\ UNCHANGED <<ast, err>>
       ELSE \E parsed \in {ParsedOf[toks]} :
              /\ IF parsed.ok
                 THEN /\ ast' = parsed.val
                      /\ pc' = "parsed"
                      /\ UNCHANGED err
                 ELSE /\ err' = parsed.err
                      /\ pc' = "failed"
                      /\ UNCHANGED ast
              /\ UNCHANGED loop
    /\ UNCHANGED <<src, raw, toks, toks2, out>>

\* the designator loop of parseDuration: one iteration, or its exit
DurationStep ==
    /\ pc = "durationBody"
    /\ \E r \in {durationStep(toks, loop.i, loop.inTime, loop.dur, loop.rawParts)} :
         IF ~r.ok
         THEN /\ err' = r.err
              /\ pc' = "failed"
              /\ UNCHANGED loop
         ELSE /\ loop' = r
              /\ pc' = IF r.done THEN "durationRest" ELSE "durationBody"
              /\ UNCHANGED err
    /\ UNCHANGED <<src, raw, toks, toks2, ast, out>>

\* the rest of Parser.parseTemporal after the designator loop
DurationRest ==
    /\ pc = "durationRest"
    /\ \E parsed \in {DurationRestOf[<<toks, Ok(loop.i, [dur |-> loop.dur,
                                                        raw |-> loop.rawParts])>>]} :
         IF parsed.ok
         THEN /\ ast' = parsed.val
              /\ pc' = "parsed"
              /\ UNCHANGED err
         ELSE /\ err' = parsed.err
              /\ pc' = "failed"
              /\ UNCHANGED ast
    /\ UNCHANGED <<src, raw, toks, toks2, out, loop>>

NextSteps ==
    LexStep \/ BracketStep \/ FuseStep \/ ParseStart \/ DurationStep \/ DurationRest

SpecSteps == InitSteps /\ [][NextSteps]_vars

\* parseTemporal is synchronous: an iteration that can run does run
SpecStepsFair == SpecSteps /\ WF_vars(NextSteps)

----------------------------------------------------------------------------
(* Termination *)

\* an iteration that stays in its loop leaves the cursor further on, and
\* never past the end of what the loop reads
CursorAdvances ==
    /\ (pc \in {"lexing", "lexingBracket"} /\ pc' \in {"lexing", "lexingBracket"})
          => (loop'.i > loop.i /\ loop'.i <= Len(src))
    /\ (pc = "fusing" /\ pc' = "fusing")
          => (loop'.i > loop.i /\ loop'.i <= Len(raw))
    /\ (pc = "durationBody" /\ pc' = "durationBody")
          => (loop'.i > loop.i /\ loop'.i < Len(toks))

\* what parseTemporal gives for each of the texts, computed once: the value
\* returned or the error thrown
parseTemporalOf ==
    [s \in StepInputs |->
       LET lexed == lexTemporal(s) IN
       IF ~lexed.ok THEN lexed
       ELSE parserParseTemporal(combineTimezoneOffsets(lexed.tokens))]

\* the run ended with what parseTemporal(src) gives: a value or an error
Finished ==
    IF parseTemporalOf[src].ok
    THEN pc = "parsed" /\ ast = parseTemporalOf[src].val /\ err = NoError
    ELSE pc = "failed" /\ err = parseTemporalOf[src].err /\ ast = NoAst

============================================================================
